---- MODULE Spec2Model ----
(***************************************************************************)
(* A model of dom-a-thor's image rectangle-extraction pipeline             *)
(* (utils/imageProcessor.ts) and of the image helpers of                   *)
(* utils/leafletUtils.ts.                                                  *)
(*                                                                         *)
(* Typed arrays are functions over 0..n-1 and are indexed as in the code,  *)
(* index = y * width + x.  Points are records [x, y].                      *)
(***************************************************************************)
EXTENDS Integers, Sequences, FiniteSets, TLC

VARIABLES
    img,        \* the decoded source image [width, height, data] (RGB triples)
    config,     \* the CropConfig of the invocation
    promise,    \* [state, value, error] of the promise cropToInnerRectangle returns
    canvas,     \* [width, height, data] of the canvas once onload has sized it, or Null
    log,        \* the canvas / pipeline operations performed so far, in order
    thrown,     \* the operations that threw, in order
    dom,        \* [event, ctx]: the image event fired and what getContext returned
    proc,       \* locals of processImageWithJavaScript: [bestRect, crop], or Null
    settles,    \* [resolve, reject]: how often each promise callback was invoked
    call,       \* pure-function harness: the function applied and its arguments
    ret         \* pure-function harness: its result, or Pending

vars == <<img, config, promise, canvas, log, thrown, dom, proc, settles, call, ret>>

\* null / undefined: a record unlike every value of the program.
Null == [null |-> TRUE]

Min(a, b) == IF a <= b THEN a ELSE b
Max(a, b) == IF a >= b THEN a ELSE b
Abs(a) == IF a < 0 THEN -a ELSE a
Last(s) == s[Len(s)]
Front(s) == SubSeq(s, 1, Len(s) - 1)

(***************************************************************************)
(* IEEE-754 double arithmetic.  A natural number of any size is the        *)
(* little-endian sequence of its digits in base Radix, without a leading   *)
(* zero digit.  A double other than zero is sign * man * 2^exp with man of *)
(* exactly 53 bits; an operation takes the exact result and rounds it to   *)
(* the nearest double, ties to even.  The numbers of the program stay far  *)
(* from the subnormal and the infinite range; NaN arises from 0 / 0.       *)
(* Every operation on doubles is a case of the one operator Math.          *)
(***************************************************************************)
RECURSIVE Pow2(_)
Pow2(k) == IF k <= 0 THEN 1 ELSE 2 * Pow2(k - 1)

LimbBits == 14
Radix == Pow2(LimbBits)
Precision == 53

\* a without its leading zero digits.
RECURSIVE BigTrim(_)
BigTrim(a) == IF a # <<>> /\ a[Len(a)] = 0 THEN BigTrim(Front(a)) ELSE a

RECURSIVE BigOfInt(_)
BigOfInt(n) == IF n = 0 THEN <<>> ELSE <<n % Radix>> \o BigOfInt(n \div Radix)

RECURSIVE BigToInt(_)
BigToInt(a) == IF a = <<>> THEN 0 ELSE a[1] + Radix * BigToInt(Tail(a))

Limb(a, i) == IF i <= Len(a) THEN a[i] ELSE 0

\* Digit i of a + b takes a carry when a lower digit j overflows and every
\* digit between j and i passes the carry on.
BigCarry(a, b, i) ==
    \E j \in 1..(i - 1) :
        /\ Limb(a, j) + Limb(b, j) >= Radix
        /\ \A m \in (j + 1)..(i - 1) : Limb(a, m) + Limb(b, m) = Radix - 1

BigAdd(a, b) ==
    IF a = <<>> THEN b
    ELSE IF b = <<>> THEN a
    ELSE BigTrim([i \in 1..(Max(Len(a), Len(b)) + 1) |->
               (Limb(a, i) + Limb(b, i) + IF BigCarry(a, b, i) THEN 1 ELSE 0) % Radix])

BigBorrow(a, b, i) ==
    \E j \in 1..(i - 1) :
        /\ Limb(a, j) < Limb(b, j)
        /\ \A m \in (j + 1)..(i - 1) : Limb(a, m) = Limb(b, m)

\* a - b for a >= b.
BigSub(a, b) ==
    IF b = <<>> THEN a
    ELSE BigTrim([i \in DOMAIN a |->
               (a[i] - Limb(b, i) - IF BigBorrow(a, b, i) THEN 1 ELSE 0) % Radix])

BigLess(a, b) ==
    IF Len(a) # Len(b) THEN Len(a) < Len(b)
    ELSE \E i \in DOMAIN a : a[i] < b[i] /\ \A j \in (i + 1)..Len(a) : a[j] = b[j]

\* a * m for a digit m: the low and the high digits of the products.
BigTimes(a, m) ==
    IF a = <<>> \/ m = 0 THEN <<>>
    ELSE BigAdd([i \in DOMAIN a |-> (a[i] * m) % Radix],
                <<0>> \o [i \in DOMAIN a |-> (a[i] * m) \div Radix])

\* The sum of the products a[i] * b[j] with i + j = k + 1, from digit i of a
\* on; it stays below 2^31 for a of at most eight digits.
RECURSIVE BigColumn(_, _, _, _)
BigColumn(a, b, k, i) ==
    IF i > Len(a) \/ i > k THEN 0
    ELSE a[i] * Limb(b, k + 1 - i) + BigColumn(a, b, k, i + 1)

\* The columns of the product are numbers of three digits.
BigMul(a, b) ==
    IF a = <<>> \/ b = <<>> THEN <<>>
    ELSE BigAdd(BigAdd([k \in 1..(Len(a) + Len(b)) |-> BigColumn(a, b, k, 1) % Radix],
                       <<0>> \o [k \in 1..(Len(a) + Len(b)) |->
                                   (BigColumn(a, b, k, 1) \div Radix) % Radix]),
                <<0, 0>> \o [k \in 1..(Len(a) + Len(b)) |->
                               BigColumn(a, b, k, 1) \div (Radix * Radix)])

\* a * 2^k and floor(a / 2^k).
BigShl(a, k) ==
    IF a = <<>> THEN <<>>
    ELSE [i \in 1..(k \div LimbBits) |-> 0] \o BigTimes(a, 2^(k % LimbBits))

BigShr(a, k) ==
    LET q == k \div LimbBits
        p == 2^(k % LimbBits)
    IN  BigTrim([i \in 1..(Len(a) - q) |->
                   (a[i + q] \div p) + (Limb(a, i + q + 1) % p) * (Radix \div p)])

\* a is not a multiple of 2^k.
BigLow(a, k) ==
    \/ \E i \in 1..Min(k \div LimbBits, Len(a)) : a[i] # 0
    \/ Limb(a, k \div LimbBits + 1) % 2^(k % LimbBits) # 0

\* The number of bits of a digit.
BitLength(n) == Cardinality({k \in 0..LimbBits : 2^k <= n})

BigBits(a) == IF a = <<>> THEN 0 ELSE LimbBits * (Len(a) - 1) + BitLength(a[Len(a)])

BigOdd(a) == a # <<>> /\ a[1] % 2 = 1

FlZero == [sign |-> 1, man |-> <<>>, exp |-> 0]
NaN == [nan |-> TRUE]

\* A mantissa of Precision bits, or 2^Precision after a carry.
FlNormal(sign, r, e) ==
    IF BigBits(r) > Precision
    THEN [sign |-> sign, man |-> BigShr(r, 1), exp |-> e + 1]
    ELSE [sign |-> sign, man |-> r, exp |-> e]

\* half holds the mantissa with one more bit, below says whether anything
\* of the value lies below that bit: to nearest, a tie to the even mantissa.
FlRoundHalf(sign, half, below, e) ==
    IF BigOdd(half) /\ (below \/ BigOdd(BigShr(half, 1)))
    THEN FlNormal(sign, BigAdd(BigShr(half, 1), <<1>>), e)
    ELSE [sign |-> sign, man |-> BigShr(half, 1), exp |-> e]

\* n has s bits more than a mantissa.
FlRoundBits(sign, n, e, sticky, s) ==
    IF s <= 0 THEN [sign |-> sign, man |-> BigShl(n, -s), exp |-> e + s]
    ELSE FlRoundHalf(sign, BigShr(n, s - 1), sticky \/ BigLow(n, s - 1), e + s)

\* The double nearest to the exact value v.sign * v.n * 2^v.e, or, with
\* v.sticky, to a value that lies above v.n * 2^v.e by less than 2^v.e.
FlRound(v) ==
    IF v.n = <<>> THEN FlZero
    ELSE FlRoundBits(v.sign, v.n, v.e, v.sticky, BigBits(v.n) - Precision)

Exact(sign, n, e, sticky) == [sign |-> sign, n |-> n, e |-> e, sticky |-> sticky]

ExactInt(n) == Exact(IF n < 0 THEN -1 ELSE 1, BigOfInt(Abs(n)), 0, FALSE)

\* a + b for exp of a at least exp of b, x the mantissa of a on the exponent
\* of b.
ExactSumAligned(a, b, x) ==
    Exact(IF a.sign # b.sign /\ BigLess(x, b.man) THEN b.sign ELSE a.sign,
          IF a.sign = b.sign THEN BigAdd(x, b.man)
          ELSE IF BigLess(x, b.man) THEN BigSub(b.man, x)
          ELSE BigSub(x, b.man),
          b.exp, FALSE)

\* A summand more than 64 binary places below the other moves the sum by
\* less than a quarter of its last place.
ExactSumOrdered(a, b) ==
    IF a.exp - b.exp > 64
    THEN Exact(a.sign,
               IF a.sign = b.sign THEN BigShl(a.man, 2)
               ELSE BigSub(BigShl(a.man, 2), <<1>>),
               a.exp - 2, TRUE)
    ELSE ExactSumAligned(a, b, BigShl(a.man, a.exp - b.exp))

ExactSum(a, b) ==
    IF a.man = <<>> THEN Exact(b.sign, b.man, b.exp, FALSE)
    ELSE IF b.man = <<>> THEN Exact(a.sign, a.man, a.exp, FALSE)
    ELSE ExactSumOrdered(IF a.exp >= b.exp THEN a ELSE b,
                         IF a.exp >= b.exp THEN b ELSE a)

ExactProduct(a, b) == Exact(a.sign * b.sign, BigMul(a.man, b.man), a.exp + b.exp, FALSE)

\* floor(r * Radix / d) and the remainder for r < d and d of Precision bits.
\* The quotient of the leading 16 bits of d into the bits of r above the same
\* place is off by a few units at most; DivideFix moves it to the digit q
\* with q * d <= r * Radix < (q + 1) * d.
RECURSIVE DivideFix(_, _, _)
DivideRemainder(t, d, q, rest) ==
    IF BigLess(rest, d) THEN [quotient |-> q, remainder |-> rest]
    ELSE DivideFix(t, d, q + 1)

DivideProduct(t, d, q, p) ==
    IF BigLess(t, p) THEN DivideFix(t, d, q - 1)
    ELSE DivideRemainder(t, d, q, BigSub(t, p))

DivideFix(t, d, q) == DivideProduct(t, d, q, BigTimes(d, q))

DivideDigit(r, d) ==
    IF r = <<>> THEN [quotient |-> 0, remainder |-> <<>>]
    ELSE DivideFix(<<0>> \o r, d,
                   Min(Radix - 1,
                       (BigToInt(BigShr(r, Precision - 16)) * Radix)
                           \div BigToInt(BigShr(d, Precision - 16))))

\* The digits of floor(r * Radix^n / d) for r < d, with the remainder.
RECURSIVE DivideLimbs(_, _, _)
DivideRest(top, rest) ==
    [quotient |-> Append(rest.quotient, top.quotient), remainder |-> rest.remainder]

DivideNext(top, d, n) == DivideRest(top, DivideLimbs(top.remainder, d, n - 1))

DivideLimbs(r, d, n) ==
    IF n = 0 THEN [quotient |-> <<>>, remainder |-> r]
    ELSE DivideNext(DivideDigit(r, d), d, n)

ExactQuotientOf(sign, whole, d, e) ==
    Exact(sign, BigTrim(d.quotient \o <<whole>>), e, d.remainder # <<>>)

\* a / b for b other than zero: man of a over man of b lies between 1/2 and
\* 2, so its whole part and four digits hold at least 56 bits.
ExactQuotient(a, b) ==
    IF a.man = <<>> THEN Exact(1, <<>>, 0, FALSE)
    ELSE ExactQuotientOf(a.sign * b.sign,
                         IF BigLess(a.man, b.man) THEN 0 ELSE 1,
                         DivideLimbs(IF BigLess(a.man, b.man) THEN a.man
                                     ELSE BigSub(a.man, b.man),
                                     b.man, 4),
                         a.exp - b.exp - 4 * LimbBits)

IsNaN(a) == a = NaN

FlNeg(a) == IF IsNaN(a) \/ a.man = <<>> THEN a ELSE [a EXCEPT !.sign = -a.sign]
FlAbs(a) == IF IsNaN(a) THEN a ELSE [a EXCEPT !.sign = 1]

FlLess(a, b) ==
    IF a.man = <<>> THEN b.man # <<>> /\ b.sign > 0
    ELSE IF b.man = <<>> THEN a.sign < 0
    ELSE IF a.sign # b.sign THEN a.sign < b.sign
    ELSE IF a.sign > 0
    THEN a.exp < b.exp \/ (a.exp = b.exp /\ BigLess(a.man, b.man))
    ELSE a.exp > b.exp \/ (a.exp = b.exp /\ BigLess(b.man, a.man))

\* Math.min
FlMin(a, b) == IF FlLess(b, a) THEN b ELSE a

\* Math.round of a double that is not negative: halves go up.
FlRoundToInt(a) ==
    IF a.man = <<>> \/ a.exp < -(Precision + 1) THEN 0
    ELSE IF a.exp >= 0 THEN BigToInt(BigShl(a.man, a.exp))
    ELSE BigToInt(BigShr(BigAdd(BigShr(a.man, -a.exp - 1), <<1>>), 1))

RECURSIVE Math(_, _, _)
Add(a, b) == Math("add", a, b)
Sub(a, b) == Math("sub", a, b)
Mul(a, b) == Math("mul", a, b)
Div(a, b) == Math("div", a, b)
Rem(a, b) == Math("rem", a, b)
Number(n) == Math("number", n, 0)

(***************************************************************************)
(* convertToGrayscale: Math.round(0.299 R + 0.587 G + 0.114 B) per pixel,  *)
(* the sum taken in doubles from left to right, the result stored in a     *)
(* Uint8Array.                                                             *)
(***************************************************************************)
\* The double sum lies within 2^-40 of (299 R + 587 G + 114 B) / 1000, a
\* multiple of 1/1000: it rounds as that value does unless that value is a
\* half, and then the double decides.
RoundedLuminance(R, G, B) ==
    IF (299 * R + 587 * G + 114 * B) % 1000 = 500
    THEN Math("luminance", <<R, G, B>>, 0)
    ELSE (299 * R + 587 * G + 114 * B + 500) \div 1000

convertToGrayscale(imageData) ==
    [i \in DOMAIN imageData |->
        RoundedLuminance(imageData[i][1], imageData[i][2], imageData[i][3]) % 256]

(***************************************************************************)
(* applyGaussianBlur: 3x3 kernel [[1,2,1],[2,4,2],[1,2,1]] / 16 on the     *)
(* interior pixels; the fresh Uint8Array leaves the border at 0.           *)
(***************************************************************************)
kernel == <<<<1, 2, 1>>, <<2, 4, 2>>, <<1, 2, 1>>>>
kernelSum == 16

Interior(x, y, width, height) ==
    x >= 1 /\ x < width - 1 /\ y >= 1 /\ y < height - 1

Convolve(data, width, x, y, k) ==
    LET term(ky, kx) == data[(y + ky) * width + (x + kx)] * k[ky + 2][kx + 2]
    IN  term(-1, -1) + term(-1, 0) + term(-1, 1)
      + term(0, -1)  + term(0, 0)  + term(0, 1)
      + term(1, -1)  + term(1, 0)  + term(1, 1)

\* A blur that truncates the quotient instead of rounding it.
applyGaussianBlurTruncated(grayData, width, height) ==
    [i \in DOMAIN grayData |->
        LET x == i % width
            y == i \div width
        IN  IF Interior(x, y, width, height)
            THEN (Convolve(grayData, width, x, y, kernel) \div kernelSum) % 256
            ELSE 0]

applyGaussianBlur(grayData, width, height) ==
    [i \in DOMAIN grayData |->
        LET x == i % width
            y == i \div width
        IN  IF Interior(x, y, width, height)
            THEN ((2 * Convolve(grayData, width, x, y, kernel) + kernelSum)
                    \div (2 * kernelSum)) % 256
            ELSE 0]

(***************************************************************************)
(* The 3x3 neighbourhood in the order of the code's loops                  *)
(*   for dy = -1..1  for dx = -1..1.                                       *)
(***************************************************************************)
Neighbourhood ==
    <<[dx |-> -1, dy |-> -1], [dx |-> 0, dy |-> -1], [dx |-> 1, dy |-> -1],
      [dx |-> -1, dy |-> 0],  [dx |-> 0, dy |-> 0],  [dx |-> 1, dy |-> 0],
      [dx |-> -1, dy |-> 1],  [dx |-> 0, dy |-> 1],  [dx |-> 1, dy |-> 1]>>

InBounds(x, y, width, height) ==
    x >= 0 /\ x < width /\ y >= 0 /\ y < height

\* The 4 edge neighbours only.
NeighboursCross(x, y) ==
    [k \in 1..4 |-> [x |-> x + Neighbourhood[2 * k].dx, y |-> y + Neighbourhood[2 * k].dy]]

\* The points (x + dx, y + dy) in loop order.
Neighbours(x, y) ==
    [k \in 1..9 |-> [x |-> x + Neighbourhood[k].dx, y |-> y + Neighbourhood[k].dy]]

\* f with f[i] = v for the index i of every point of pts.
RECURSIVE SetAll(_, _, _, _)
SetAll(f, pts, width, v) ==
    IF pts = <<>> THEN f
    ELSE SetAll([f EXCEPT ![Head(pts).y * width + Head(pts).x] = v], Tail(pts), width, v)

(***************************************************************************)
(* applyCannyEdgeDetection.                                                *)
(*                                                                         *)
(* gradientMagnitude holds Math.sqrt(gx*gx + gy*gy) as a float32.  On the  *)
(* integers gx*gx + gy*gy <= 2 * 1020^2 both the square root and the       *)
(* rounding to float32 are strictly increasing, so the model keeps the     *)
(* square and compares squares (and squares of the thresholds).            *)
(*                                                                         *)
(* gradientDirection holds Math.atan2(gy, gx); the four tests against      *)
(* multiples of PI/8 are decided exactly on the integers gx, gy with       *)
(* tan(PI/8) = sqrt(2) - 1 and tan(3 PI/8) = sqrt(2) + 1.                  *)
(***************************************************************************)
sobelX == <<<<-1, 0, 1>>, <<-2, 0, 2>>, <<-1, 0, 1>>>>
sobelY == <<<<-1, -2, -1>>, <<0, 0, 0>>, <<1, 2, 1>>>>

\* [gx, gy] at every pixel; the Float32Arrays start at 0, the border stays 0.
Gradient(grayData, width, height) ==
    [i \in DOMAIN grayData |->
        LET x == i % width
            y == i \div width
        IN  IF Interior(x, y, width, height)
            THEN [gx |-> Convolve(grayData, width, x, y, sobelX),
                  gy |-> Convolve(grayData, width, x, y, sobelY)]
            ELSE [gx |-> 0, gy |-> 0]]

MagnitudeSq(g) == g.gx * g.gx + g.gy * g.gy

\* The branch of the direction test the code takes for atan2(gy, gx):
\*   "horizontal"  -PI/8 <= d < PI/8,    "diagonal"   PI/8 <= d < 3PI/8,
\*   "vertical"   3PI/8 <= d < 5PI/8,    "antidiagonal" otherwise.
DirectionBin(gx, gy) ==
    IF gx = 0 /\ gy = 0 THEN "horizontal"
    ELSE IF gx > 0 /\ (Abs(gy) + gx) * (Abs(gy) + gx) < 2 * gx * gx THEN "horizontal"
    ELSE IF gx > 0 /\ gy > 0 /\ (gy <= gx \/ (gy - gx) * (gy - gx) < 2 * gx * gx)
        THEN "diagonal"
    ELSE IF gy > 0 /\ (Abs(gx) + gy) * (Abs(gx) + gy) < 2 * gy * gy THEN "vertical"
    ELSE "antidiagonal"

\* The indices of neighbor1 and neighbor2 for a direction branch.
NeighborPair(bin, index, width) ==
    CASE bin = "horizontal" -> <<index - 1, index + 1>>
      [] bin = "diagonal" -> <<index - width - 1, index + width + 1>>
      [] bin = "vertical" -> <<index - width, index + width>>
      [] OTHER -> <<index - width + 1, index + width - 1>>

\* A strict test, which drops a pixel that ties with a neighbour.
IsStrictLocalMax(magnitude, neighbor1, neighbor2) ==
    magnitude > neighbor1 /\ magnitude > neighbor2

\* magnitude >= neighbor1 && magnitude >= neighbor2
IsLocalMax(magnitude, neighbor1, neighbor2) ==
    magnitude >= neighbor1 /\ magnitude >= neighbor2

\* magnitude > highThreshold ? 255 : (magnitude > lowThreshold ? 128 : 0),
\* on squared magnitudes; a negative threshold is below every magnitude.
Exceeds(magSq, threshold) == threshold < 0 \/ magSq > threshold * threshold

Classify(magSq, lowThreshold, highThreshold) ==
    IF Exceeds(magSq, highThreshold) THEN 255
    ELSE IF Exceeds(magSq, lowThreshold) THEN 128 ELSE 0

NonMaxSuppression(grad, width, height, lowThreshold, highThreshold) ==
    [index \in DOMAIN grad |->
        LET x == index % width
            y == index \div width
            pair == NeighborPair(DirectionBin(grad[index].gx, grad[index].gy), index, width)
            magnitude == MagnitudeSq(grad[index])
        IN  IF Interior(x, y, width, height)
               /\ IsLocalMax(magnitude, MagnitudeSq(grad[pair[1]]), MagnitudeSq(grad[pair[2]]))
            THEN Classify(magnitude, lowThreshold, highThreshold)
            ELSE 0]

(***************************************************************************)
(* traceWeakEdges: the while loop over the explicit stack.  A loop state   *)
(* is [edge, stack]; TraceWeakStep is one iteration, TraceWeakRun(st, n)   *)
(* runs the loop for at most n iterations (it stops at the empty stack).   *)
(* Every pixel is pushed at most once, so width*height + 1 iterations      *)
(* exhaust the loop.                                                       *)
(***************************************************************************)
\* A loop body that marks a pixel when it is popped, not when it is pushed.
TraceWeakStepMarkOnPop(suppressedData, width, height, st) ==
    LET top == Last(st.stack)
        marked == [st.edge EXCEPT ![top.y * width + top.x] = 255]
        found == SelectSeq(Neighbours(top.x, top.y),
                    LAMBDA p : /\ InBounds(p.x, p.y, width, height)
                               /\ suppressedData[p.y * width + p.x] = 128
                               /\ marked[p.y * width + p.x] = 0)
    IN  [edge |-> marked, stack |-> Front(st.stack) \o found]

TraceWeakStep(suppressedData, width, height, st) ==
    LET top == Last(st.stack)
        found == SelectSeq(Neighbours(top.x, top.y),
                    LAMBDA p : /\ InBounds(p.x, p.y, width, height)
                               /\ suppressedData[p.y * width + p.x] = 128
                               /\ st.edge[p.y * width + p.x] = 0)
    IN  [edge |-> SetAll(st.edge, found, width, 255),
         stack |-> Front(st.stack) \o found]

RECURSIVE TraceWeakRun(_, _, _, _, _)
TraceWeakRun(suppressedData, width, height, st, n) ==
    IF st.stack = <<>> \/ n = 0 THEN st
    ELSE IF n = 1 THEN TraceWeakStep(suppressedData, width, height, st)
    ELSE LET half == TraceWeakRun(suppressedData, width, height, st, n \div 2)
         IN  TraceWeakRun(suppressedData, width, height, half, n - (n \div 2))

traceWeakEdges(suppressedData, edgeData, width, height, startX, startY) ==
    TraceWeakRun(suppressedData, width, height,
                 [edge |-> edgeData, stack |-> <<[x |-> startX, y |-> startY]>>],
                 width * height + 1).edge

\* A hysteresis that marks the strong pixel and follows no weak pixel.
HysteresisAtSeedOnly(suppressedData, edgeData, width, height, index) ==
    LET x == index % width
        y == index \div width
    IN  IF Interior(x, y, width, height) /\ suppressedData[index] = 255
        THEN [edgeData EXCEPT ![index] = 255]
        ELSE edgeData

\* The hysteresis loop body at one index, and the loop over the indices lo..hi-1.
HysteresisAt(suppressedData, edgeData, width, height, index) ==
    LET x == index % width
        y == index \div width
    IN  IF Interior(x, y, width, height) /\ suppressedData[index] = 255
        THEN traceWeakEdges(suppressedData, [edgeData EXCEPT ![index] = 255],
                            width, height, x, y)
        ELSE edgeData

RECURSIVE HysteresisScan(_, _, _, _, _, _)
HysteresisScan(suppressedData, edgeData, width, height, lo, hi) ==
    IF hi <= lo \/ DOMAIN edgeData = {} THEN edgeData
    ELSE IF hi = lo + 1 THEN HysteresisAt(suppressedData, edgeData, width, height, lo)
    ELSE LET mid == (lo + hi) \div 2
             left == HysteresisScan(suppressedData, edgeData, width, height, lo, mid)
         IN  HysteresisScan(suppressedData, left, width, height, mid, hi)

applyCannyEdgeDetection(grayData, width, height, lowThreshold, highThreshold) ==
    LET grad == Gradient(grayData, width, height)
        suppressedData == NonMaxSuppression(grad, width, height, lowThreshold, highThreshold)
    IN  HysteresisScan(suppressedData, [i \in DOMAIN grayData |-> 0],
                       width, height, 0, width * height)

(***************************************************************************)
(* applyDilation.  One iteration copies dilatedData into newData and, for  *)
(* every interior pixel that is 255 in dilatedData, writes 255 to its 3x3  *)
(* block of newData; pixels of the border row and column are never the     *)
(* centre of a block.                                                      *)
(***************************************************************************)
\* A dilation over the 4 edge neighbours only.
DilateOnceCross(dilatedData, width, height) ==
    [i \in DOMAIN dilatedData |->
        LET nx == i % width
            ny == i \div width
        IN  IF \E k \in {2, 4, 5, 6, 8} :
                   LET x == nx - Neighbourhood[k].dx
                       y == ny - Neighbourhood[k].dy
                   IN  Interior(x, y, width, height) /\ dilatedData[y * width + x] = 255
            THEN 255
            ELSE dilatedData[i]]

DilateOnce(dilatedData, width, height) ==
    [i \in DOMAIN dilatedData |->
        LET nx == i % width
            ny == i \div width
        IN  IF \E k \in 1..9 :
                   LET x == nx - Neighbourhood[k].dx
                       y == ny - Neighbourhood[k].dy
                   IN  Interior(x, y, width, height) /\ dilatedData[y * width + x] = 255
            THEN 255
            ELSE dilatedData[i]]

RECURSIVE applyDilation(_, _, _, _)
applyDilation(edgeData, width, height, iterations) ==
    IF iterations <= 0 THEN edgeData
    ELSE DilateOnce(applyDilation(edgeData, width, height, iterations - 1), width, height)

(***************************************************************************)
(* traceContour: the while loop over the explicit stack.  A loop state is  *)
(* [visited, contour, stack].  A pixel is pushed at most once for each of  *)
(* its 8 neighbours, so 8 * width * height + 1 iterations exhaust the loop.*)
(***************************************************************************)
\* A loop body that does not test visited when it pops a pixel.
TraceContourStepUnchecked(edgeData, width, height, st) ==
    LET top == Last(st.stack)
        index == top.y * width + top.x
        rest == Front(st.stack)
    IN  IF edgeData[index] = 255
        THEN LET marked == [st.visited EXCEPT ![index] = 1]
                 pushed == SelectSeq(Neighbours(top.x, top.y),
                             LAMBDA p : /\ InBounds(p.x, p.y, width, height)
                                        /\ marked[p.y * width + p.x] = 0
                                        /\ edgeData[p.y * width + p.x] = 255)
             IN  [visited |-> marked,
                  contour |-> Append(st.contour, top),
                  stack |-> rest \o pushed]
        ELSE [st EXCEPT !.stack = rest]

TraceContourStep(edgeData, width, height, st) ==
    LET top == Last(st.stack)
        index == top.y * width + top.x
        rest == Front(st.stack)
    IN  IF st.visited[index] = 0 /\ edgeData[index] = 255
        THEN LET marked == [st.visited EXCEPT ![index] = 1]
                 pushed == SelectSeq(Neighbours(top.x, top.y),
                             LAMBDA p : /\ InBounds(p.x, p.y, width, height)
                                        /\ marked[p.y * width + p.x] = 0
                                        /\ edgeData[p.y * width + p.x] = 255)
             IN  [visited |-> marked,
                  contour |-> Append(st.contour, top),
                  stack |-> rest \o pushed]
        ELSE [st EXCEPT !.stack = rest]

RECURSIVE TraceContourRun(_, _, _, _, _)
TraceContourRun(edgeData, width, height, st, n) ==
    IF st.stack = <<>> \/ n = 0 THEN st
    ELSE IF n = 1 THEN TraceContourStep(edgeData, width, height, st)
    ELSE LET half == TraceContourRun(edgeData, width, height, st, n \div 2)
         IN  TraceContourRun(edgeData, width, height, half, n - (n \div 2))

\* Returns [visited, contour]: the code returns contour and updates visited in place.
traceContour(edgeData, visited, width, height, startX, startY) ==
    LET done == TraceContourRun(edgeData, width, height,
                    [visited |-> visited, contour |-> <<>>,
                     stack |-> <<[x |-> startX, y |-> startY]>>],
                    8 * width * height + 1)
    IN  [visited |-> done.visited, contour |-> done.contour]

(***************************************************************************)
(* findContours: the row-major scan; a scan state is [visited, contours,   *)
(* traced].  traced is a history of every contour traceContour returned,   *)
(* kept or not; the code holds no such list.                               *)
(***************************************************************************)
MinContourLength == 10

\* A filter that also keeps a contour of exactly the minimum length.
KeepContourAtLeast(contour) == Len(contour) >= MinContourLength

KeepContour(contour) == Len(contour) > MinContourLength

FindContoursAt(edgeData, width, height, st, index) ==
    IF edgeData[index] = 255 /\ st.visited[index] = 0
    THEN LET traced == traceContour(edgeData, st.visited, width, height,
                                    index % width, index \div width)
         IN  [visited |-> traced.visited,
              contours |-> IF KeepContour(traced.contour)
                           THEN Append(st.contours, traced.contour)
                           ELSE st.contours,
              traced |-> Append(st.traced, traced.contour)]
    ELSE st

RECURSIVE FindContoursScan(_, _, _, _, _, _)
FindContoursScan(edgeData, width, height, st, lo, hi) ==
    IF hi <= lo \/ DOMAIN st.visited = {} THEN st
    ELSE IF hi = lo + 1 THEN FindContoursAt(edgeData, width, height, st, lo)
    ELSE LET mid == (lo + hi) \div 2
             left == FindContoursScan(edgeData, width, height, st, lo, mid)
         IN  FindContoursScan(edgeData, width, height, left, mid, hi)

\* The scan state after the two loops.
ScanContours(edgeData, width, height) ==
    FindContoursScan(edgeData, width, height,
                     [visited |-> [i \in DOMAIN edgeData |-> 0], contours |-> <<>>,
                      traced |-> <<>>],
                     0, width * height)

findContours(edgeData, width, height) == ScanContours(edgeData, width, height).contours

(***************************************************************************)
(* IEEE-754 double arithmetic of the expressions  a * (b / c)  on small    *)
(* non-negative integers, as in  img.width * scale,  imgArea *             *)
(* (minAreaPercent / 100)  and  Math.min(width, height) * 0.02.            *)
(*                                                                         *)
(* fl(b/c) = b/c - d / (c * 2^P) with P = 52 - floor(log2(b/c)) and d the  *)
(* signed remainder of the correctly rounded division.  When the exact     *)
(* product v = a*b/c is itself a double (an integer or a half-integer),    *)
(* the rounded product fl(a * fl(b/c)) is v, its predecessor or its        *)
(* successor; ProductError is -1, 0 or 1 accordingly.                      *)
(***************************************************************************)
RECURSIVE FloorLog2(_, _)
FloorLog2(n, d) ==
    IF n >= 2 * d THEN 1 + FloorLog2(n, 2 * d)
    ELSE IF n < d THEN FloorLog2(2 * n, d) - 1
    ELSE 0

RECURSIVE Pow2Mod(_, _)
Pow2Mod(k, c) == IF k <= 0 THEN 1 % c ELSE (2 * Pow2Mod(k - 1, c)) % c

DivisionRemainder(b, c) ==
    LET P == 52 - FloorLog2(b, c)
        r == ((b % c) * Pow2Mod(P, c)) % c
        odd == ((b % (2 * c)) * Pow2Mod(P, 2 * c)) % (2 * c) >= c
        up == 2 * r > c \/ (2 * r = c /\ odd)
    IN  IF up THEN r - c ELSE r

ProductError(a, b, c) ==
    IF a = 0 \/ b = 0 THEN 0
    ELSE LET d == DivisionRemainder(b, c)
             ev == FloorLog2(a * b, c)
             gap == c * Pow2(ev - FloorLog2(b, c))
             isPow2 == a * b = c * Pow2(ev) \/ a * b * Pow2(-ev) = c
         IN  IF d > 0
             THEN (IF (IF isPow2 THEN 4 ELSE 2) * a * d > gap THEN -1 ELSE 0)
             ELSE (IF 2 * a * (-d) > gap THEN 1 ELSE 0)

\* Math.round(a * (b / c)): the nearest integer, halves toward +Infinity,
\* of the rounded product.
RoundProduct(a, b, c) ==
    IF (2 * a * b) % c = 0 /\ ((2 * a * b) \div c) % 2 = 1
    THEN LET k == ((2 * a * b) \div c - 1) \div 2
         IN  IF ProductError(a, b, c) >= 0 THEN k + 1 ELSE k
    ELSE (2 * a * b + c) \div (2 * c)

\* x < a * (b / c) for an integer x.
LessThanProduct(x, a, b, c) ==
    IF (a * b) % c = 0
    THEN x < (a * b) \div c \/ (x = (a * b) \div c /\ ProductError(a, b, c) > 0)
    ELSE x * c < a * b

(***************************************************************************)
(* Math.atan2 and the angle of calculateMinAreaRect, in doubles.            *)
(***************************************************************************)
\* The tables of fdlibm's atan and atan2, the algorithm of Math.atan2 in V8
\* (base/ieee754.cc): atan(0.5), atan(1), atan(1.5), atan(inf) in a high and
\* a low part, the coefficients of the polynomial, and pi in two parts.
atanhi ==
    <<[sign |-> 1, man |-> <<15183, 5510, 1648, 1899>>, exp |-> -54],
      [sign |-> 1, man |-> <<11544, 4368, 8117, 1608>>, exp |-> -53],
      [sign |-> 1, man |-> <<13979, 2567, 12477, 2012>>, exp |-> -53],
      [sign |-> 1, man |-> <<11544, 4368, 8117, 1608>>, exp |-> -52]>>

atanlo ==
    <<[sign |-> 1, man |-> <<9698, 2237, 14322, 1674>>, exp |-> -108],
      [sign |-> 1, man |-> <<7175, 3153, 8803, 1129>>, exp |-> -107],
      [sign |-> 1, man |-> <<3005, 11203, 14471, 1025>>, exp |-> -108],
      [sign |-> 1, man |-> <<7175, 3153, 8803, 1129>>, exp |-> -106]>>

aT ==
    <<[sign |-> 1, man |-> <<5389, 5461, 5461, 1365>>, exp |-> -54],
      [sign |-> -1, man |-> <<11204, 9827, 6553, 1638>>, exp |-> -55],
      [sign |-> 1, man |-> <<1023, 2050, 4681, 1170>>, exp |-> -55],
      [sign |-> -1, man |-> <<5745, 14476, 7279, 1820>>, exp |-> -56],
      [sign |-> 1, man |-> <<8302, 5424, 7388, 1489>>, exp |-> -56],
      [sign |-> -1, man |-> <<6765, 15826, 3882, 1260>>, exp |-> -56],
      [sign |-> 1, man |-> <<15697, 832, 5738, 1091>>, exp |-> -56],
      [sign |-> -1, man |-> <<15770, 2939, 8917, 1911>>, exp |-> -57],
      [sign |-> 1, man |-> <<3563, 4568, 13490, 1630>>, exp |-> -57],
      [sign |-> -1, man |-> <<11311, 12713, 1090, 1197>>, exp |-> -57],
      [sign |-> 1, man |-> <<6673, 3211, 5038, 1067>>, exp |-> -58]>>

pi == [sign |-> 1, man |-> <<11544, 4368, 8117, 1608>>, exp |-> -51]
pi_lo == [sign |-> 1, man |-> <<7175, 3153, 8803, 1129>>, exp |-> -105]

\* 2^-29
Tiny == [sign |-> 1, man |-> <<0, 0, 0, 1024>>, exp |-> -81]

\* The thresholds 7/16, 11/16, 19/16 and 39/16 of the argument reduction.
AtanBounds ==
    <<[sign |-> 1, man |-> <<0, 0, 0, 1792>>, exp |-> -54],
      [sign |-> 1, man |-> <<0, 0, 0, 1408>>, exp |-> -53],
      [sign |-> 1, man |-> <<0, 0, 0, 1216>>, exp |-> -52],
      [sign |-> 1, man |-> <<0, 0, 0, 1248>>, exp |-> -51]>>

\* 1.5
OneAndHalf == [sign |-> 1, man |-> <<0, 0, 0, 1536>>, exp |-> -52]

\* aT[k] + w * (aT[k + 2] + w * (aT[k + 4] + ...)) to the end of aT, from the
\* innermost sum outwards: sum is aT[k + 2] + w * (aT[k + 4] + ...).
RECURSIVE AtanPolynomial(_, _, _)
AtanPolynomial(w, k, sum) ==
    IF k < 1 \/ IsNaN(sum) THEN sum
    ELSE AtanPolynomial(w, k - 2, Add(aT[k], Mul(w, sum)))

\* x * (s1 + s2) with z = x * x, w = z * z,
\* s1 = z * (aT[0] + w * (aT[2] + ...)), s2 = w * (aT[1] + w * (aT[3] + ...)).
AtanSum(x, z, w) ==
    Mul(x, Add(Mul(z, AtanPolynomial(w, 9, aT[11])), Mul(w, AtanPolynomial(w, 8, aT[10]))))

AtanSquares(x, z) == AtanSum(x, z, Mul(z, z))

AtanSeries(x) == AtanSquares(x, Mul(x, x))

\* The argument reduction for |x| >= 7/16: the interval id and the reduced x.
AtanReduce(x) ==
    IF FlLess(x, AtanBounds[3])
    THEN (IF FlLess(x, AtanBounds[2])
          THEN [id |-> 1, x |-> Div(Sub(Mul(Number(2), x), Number(1)), Add(Number(2), x))]
          ELSE [id |-> 2, x |-> Div(Sub(x, Number(1)), Add(x, Number(1)))])
    ELSE IF FlLess(x, AtanBounds[4])
    THEN [id |-> 3, x |-> Div(Sub(x, OneAndHalf), Add(Number(1), Mul(OneAndHalf, x)))]
    ELSE [id |-> 4, x |-> Div(FlNeg(Number(1)), x)]

\* z = atanhi[id] - ((x * (s1 + s2) - atanlo[id]) - x)
AtanOffset(id, x, series) ==
    IF IsNaN(series) THEN series
    ELSE Sub(atanhi[id], Sub(Sub(series, atanlo[id]), x))

AtanInterval(r) == AtanOffset(r.id, r.x, AtanSeries(r.x))

atan(x) ==
    IF FlLess(FlAbs(x), AtanBounds[1])
    THEN (IF FlLess(FlAbs(x), Tiny) THEN x ELSE Sub(x, AtanSeries(x)))
    ELSE IF x.sign < 0 THEN FlNeg(AtanInterval(AtanReduce(FlAbs(x))))
    ELSE AtanInterval(AtanReduce(FlAbs(x)))

\* Math.atan2(y, x) for integers y and x, with z = atan(|y / x|).
Atan2Quadrant(y, x, z) ==
    IF IsNaN(z) THEN z
    ELSE IF x > 0 THEN (IF y > 0 THEN z ELSE FlNeg(z))
    ELSE IF y > 0 THEN Sub(pi, Sub(z, pi_lo))
    ELSE Sub(Sub(z, pi_lo), pi)

atan2(y, x) ==
    IF x = 1 THEN atan(Number(y))
    ELSE IF y = 0 THEN (IF x >= 0 THEN FlZero ELSE pi)
    ELSE IF x = 0 THEN (IF y < 0 THEN FlNeg(Div(pi, Number(2))) ELSE Div(pi, Number(2)))
    ELSE Atan2Quadrant(y, x, atan(FlAbs(Div(Number(y), Number(x)))))

\* 1 - Math.min(angle, 90 - angle) / 10 for angle = Math.abs(rect.angle % 90)
AxisAlignedScore(angle) ==
    Sub(Number(1), Div(FlMin(angle, Sub(Number(90), angle)), Number(10)))

\* 0.299 * R + 0.587 * G + 0.114 * B, the products summed from the left.
Luminance(rgb) ==
    Add(Add(Mul(Div(Number(299), Number(1000)), Number(rgb[1])),
            Mul(Div(Number(587), Number(1000)), Number(rgb[2]))),
        Mul(Div(Number(114), Number(1000)), Number(rgb[3])))

\* reduce((sum, c) => sum + c, 0) over the numbers of a list
RECURSIVE SumOf(_)
SumOf(numbers) ==
    IF numbers = <<>> THEN FlZero
    ELSE Add(SumOf(Front(numbers)), Number(numbers[Len(numbers)]))

ExactOf(f, a, b) ==
    CASE f = "add" -> ExactSum(a, b)
      [] f = "sub" -> ExactSum(a, FlNeg(b))
      [] f = "mul" -> ExactProduct(a, b)
      [] f = "div" -> ExactQuotient(a, b)

\* An operation of JavaScript on numbers.  An operation on NaN gives NaN, and
\* so does 0 / 0.  a % b for b > 0 takes b from |a| while it can, which is
\* exact, and keeps the sign of a.
Math(f, a, b) ==
    CASE f = "number" -> FlRound(ExactInt(a))
      [] f = "atan2Deg" -> Div(Mul(atan2(a, b), Number(180)), pi)
      [] f = "luminance" -> FlRoundToInt(Luminance(a))
      [] f = "ratio" -> Div(Number(a), Number(b))
      [] f = "mean" -> Div(SumOf(a), Number(Len(a)))
      [] b = NaN -> NaN
      [] f = "score" -> Mul(Number(a), AxisAlignedScore(FlAbs(Rem(b, Number(90)))))
      [] a = NaN -> NaN
      [] f = "div" /\ b.man = <<>> -> NaN
      [] f = "rem" -> IF FlLess(FlAbs(a), b) THEN a
                      ELSE Rem(Add(a, IF a.sign > 0 THEN FlNeg(b) ELSE b), b)
      [] OTHER -> FlRound(ExactOf(f, a, b))

\* Math.atan2(dy, dx) * 180 / Math.PI
atan2Deg(dy, dx) == Math("atan2Deg", dy, dx)

(***************************************************************************)
(* getBoundingRect, calculateMinAreaRect, findBestRectangle.               *)
(***************************************************************************)
SetMin(S) == CHOOSE m \in S : \A n \in S : m <= n
SetMax(S) == CHOOSE m \in S : \A n \in S : m >= n

\* maxX - minX and maxY - minY of the contour's points.
Extent(lowest, highest) == highest - lowest

getBoundingRect(contour) ==
    LET xs == {contour[k].x : k \in DOMAIN contour}
        ys == {contour[k].y : k \in DOMAIN contour}
    IN  [x |-> SetMin(xs), y |-> SetMin(ys),
         width |-> Extent(SetMin(xs), SetMax(xs)),
         height |-> Extent(SetMin(ys), SetMax(ys))]

calculateMinAreaRect(contour) ==
    LET bounds == getBoundingRect(contour)
        first == contour[1]
        last == contour[Len(contour)]
        angle == IF Len(contour) > 2
                 THEN atan2Deg(last.y - first.y, last.x - first.x)
                 ELSE FlZero
    IN  [x |-> bounds.x, y |-> bounds.y, width |-> bounds.width,
         height |-> bounds.height, angle |-> angle]

\* rectArea < minArea, with minArea = imgArea * (minAreaPercent / 100).
AreaUnchecked(rectArea, imgArea, minAreaPercent) == FALSE

BelowMinArea(rectArea, imgArea, minAreaPercent) ==
    LessThanProduct(rectArea, imgArea, minAreaPercent, 100)

\* borderPad = Math.round(Math.min(width, height) * 0.02).
BorderPad(width, height) == RoundProduct(Min(width, height), 2, 100)

\* A border test that lets a box touch the pad.
HugsBorderTouching(bounds, width, height, borderPad) ==
    \/ bounds.x < borderPad
    \/ bounds.y < borderPad
    \/ bounds.x + bounds.width > width - borderPad
    \/ bounds.y + bounds.height > height - borderPad

HugsBorder(bounds, width, height, borderPad) ==
    \/ bounds.x <= borderPad
    \/ bounds.y <= borderPad
    \/ bounds.x + bounds.width >= width - borderPad
    \/ bounds.y + bounds.height >= height - borderPad

\* score = rectArea * axisAlignedScore, in doubles.
Score(rectArea, rectAngle) == Math("score", rectArea, rectAngle)

\* A test under which a later candidate of equal score replaces the best.
BetterOrEqual(score, best) == best = Null \/ ~FlLess(score, best.score)

\* !best || score > best.score
Better(score, best) == best = Null \/ FlLess(best.score, score)

\* The loop body for one contour: the new value of best.
Consider(contour, best, width, height, minAreaPercent) ==
    IF Len(contour) < 4 THEN best
    ELSE LET bounds == getBoundingRect(contour)
             rectArea == bounds.width * bounds.height
         IN  IF BelowMinArea(rectArea, width * height, minAreaPercent) THEN best
             ELSE IF HugsBorder(bounds, width, height, BorderPad(width, height)) THEN best
             ELSE LET rect == calculateMinAreaRect(contour)
                      score == Score(rectArea, rect.angle)
                  IN  IF Better(score, best)
                      THEN [rect |-> rect, score |-> score]
                      ELSE best

RECURSIVE BestOver(_, _, _, _, _, _)
BestOver(contours, k, best, width, height, minAreaPercent) ==
    IF k > Len(contours) THEN best
    ELSE BestOver(contours, k + 1,
                  Consider(contours[k], best, width, height, minAreaPercent),
                  width, height, minAreaPercent)

findBestRectangle(contours, width, height, minAreaPercent) ==
    LET best == BestOver(contours, 1, Null, width, height, minAreaPercent)
    IN  IF best = Null THEN Null ELSE best.rect

(***************************************************************************)
(* cropWithPerspectiveTransform.  insetX = Math.min(insetMargin,           *)
(* rect.width / 4) can be a multiple of a quarter pixel, so cropX, cropY,  *)
(* cropWidth and cropHeight are kept in quarter pixels (times InsetDivisor)*)
(* ; width and height are the size the crop canvas takes when cropWidth    *)
(* and cropHeight are assigned to it (an integer, fraction dropped).       *)
(***************************************************************************)
InsetDivisor == 4

\* Math.min(insetMargin, side / 4), in quarter pixels.
Inset(insetMargin, side) == Min(InsetDivisor * insetMargin, side)

\* An extent that is not clamped to the canvas.
CropExtentUnclamped(canvasSide, cropOrigin, side, inset) ==
    InsetDivisor * side - 2 * inset

\* Math.min(canvasSide - cropOrigin, side - 2 * inset), in quarter pixels.
CropExtent(canvasSide, cropOrigin, side, inset) ==
    Min(InsetDivisor * canvasSide - cropOrigin, InsetDivisor * side - 2 * inset)

cropWithPerspectiveTransform(theCanvas, rect, insetMargin) ==
    LET insetX == Inset(insetMargin, rect.width)
        insetY == Inset(insetMargin, rect.height)
        cropX == Max(0, InsetDivisor * rect.x + insetX)
        cropY == Max(0, InsetDivisor * rect.y + insetY)
        cropWidth == CropExtent(theCanvas.width, cropX, rect.width, insetX)
        cropHeight == CropExtent(theCanvas.height, cropY, rect.height, insetY)
    IN  [cropX |-> cropX, cropY |-> cropY,
         cropWidth |-> cropWidth, cropHeight |-> cropHeight,
         width |-> cropWidth \div InsetDivisor, height |-> cropHeight \div InsetDivisor]

\* canvas.toDataURL('image/png'): the encoding of a canvas of the given size.
toDataURL(source, width, height) ==
    [source |-> source, width |-> width, height |-> height]

(***************************************************************************)
(* processImageWithJavaScript.  Locals are the values of bestRect and of   *)
(* the crop; CroppedResult and UncroppedResult are the two return          *)
(* statements.                                                             *)
(***************************************************************************)
BestRectOf(theCanvas, theConfig) ==
    LET grayData == convertToGrayscale(theCanvas.data)
        blurredData == applyGaussianBlur(grayData, theCanvas.width, theCanvas.height)
        edgeData == applyCannyEdgeDetection(blurredData, theCanvas.width, theCanvas.height,
                                            theConfig.cannyLow, theConfig.cannyHigh)
        dilatedData == IF theConfig.dilationIterations > 0
                       THEN applyDilation(edgeData, theCanvas.width, theCanvas.height,
                                          theConfig.dilationIterations)
                       ELSE edgeData
        contours == findContours(dilatedData, theCanvas.width, theCanvas.height)
    IN  findBestRectangle(contours, theCanvas.width, theCanvas.height, theConfig.minAreaPercent)

CroppedResult(crop, bestRect) ==
    [imageUrl |-> toDataURL("cropCanvas", crop.width, crop.height),
     width |-> bestRect.width, height |-> bestRect.height]

UncroppedResult(theCanvas) ==
    [imageUrl |-> toDataURL("canvas", theCanvas.width, theCanvas.height),
     width |-> theCanvas.width, height |-> theCanvas.height]

processImageWithJavaScript(theCanvas, theConfig) ==
    LET bestRect == BestRectOf(theCanvas, theConfig)
    IN  IF bestRect # Null
        THEN CroppedResult(cropWithPerspectiveTransform(theCanvas, bestRect, theConfig.insetMargin),
                           bestRect)
        ELSE UncroppedResult(theCanvas)

(***************************************************************************)
(* cropToInnerRectangle: the promise executor and the two image handlers.  *)
(***************************************************************************)
maxSide == 1400

\* A scaling that truncates where the code rounds.
ScaledSideTruncated(side, longest) ==
    IF longest <= maxSide THEN side ELSE (side * maxSide) \div longest

\* Math.round(side * scale) with scale = Math.min(1, maxSide / longest).
ScaledSide(side, longest) ==
    IF longest <= maxSide THEN side ELSE RoundProduct(side, maxSide, longest)

\* The canvas after canvas.width and canvas.height are set: setting them
\* clears it, every pixel is transparent black.
SizedCanvas(theImg) ==
    [width |-> ScaledSide(theImg.width, Max(theImg.width, theImg.height)),
     height |-> ScaledSide(theImg.height, Max(theImg.width, theImg.height)),
     data |-> [i \in DOMAIN theImg.data |-> <<0, 0, 0>>]]

\* The canvas after ctx.drawImage(img, 0, 0, canvas.width, canvas.height).
\* An image no larger than maxSide is drawn one to one.
ScaledCanvas(theImg) == [SizedCanvas(theImg) EXCEPT !.data = theImg.data]

\* The operations processImageWithJavaScript performs, in order.
StageOps(theConfig, bestRect) ==
    <<"getImageData", "convertToGrayscale", "applyGaussianBlur", "applyCannyEdgeDetection">>
    \o (IF theConfig.dilationIterations > 0 THEN <<"applyDilation">> ELSE <<>>)
    \o <<"findContours", "findBestRectangle">>
    \o <<IF bestRect # Null THEN "cropWithPerspectiveTransform" ELSE "toDataURL">>

Stages ==
    {"getImageData", "convertToGrayscale", "applyGaussianBlur", "applyCannyEdgeDetection",
     "applyDilation", "findContours", "findBestRectangle",
     "cropWithPerspectiveTransform", "toDataURL"}

\* The first operation of ops that throws, 0 when none does.
FirstFault(ops, faults) ==
    IF \E k \in DOMAIN ops : ops[k] \in faults
    THEN CHOOSE k \in DOMAIN ops : ops[k] \in faults /\ \A j \in 1..(k - 1) : ops[j] \notin faults
    ELSE 0

Thrown(op) == [message |-> op]

PendingPromise == [state |-> "pending", value |-> Null, error |-> Null]
Resolved(value) == [state |-> "resolved", value |-> value, error |-> Null]
Rejected(error) == [state |-> "rejected", value |-> Null, error |-> error]

\* A handler that never tests the context.
ContextUnchecked(ctx) == FALSE

\* if (!ctx) { reject(new Error('Could not get canvas context')); return; }
ContextMissing(ctx) == ctx = "null"
NoContext == Rejected([message |-> "Could not get canvas context"])

\* An outer catch that swallows the error.
OuterCatchSwallows(error) == Resolved(Null)

\* The outer catch: reject(error).
OuterCatch(error) == Rejected(error)

\* A handler without the inner catch: the stage's failure reaches the outer catch.
FallbackMissing(theCanvas, fallbackThrows) == OuterCatch(Thrown("stage"))

\* The inner catch: resolve with the canvas itself, unless toDataURL throws there,
\* which the outer catch turns into reject(error).
Fallback(theCanvas, fallbackThrows) ==
    IF fallbackThrows
    THEN OuterCatch(Thrown("fallbackToDataURL"))
    ELSE Resolved(UncroppedResult(theCanvas))

\* A handler whose context test lacks the return: after reject it goes on to
\* ctx.drawImage on null, whose TypeError the outer catch rejects with again.
SettleCallsNoReturn(ctx, faults, fault) ==
    IF ContextMissing(ctx) THEN <<"reject", "reject">>
    ELSE IF "drawImage" \in faults THEN <<"reject">>
    ELSE IF fault = 0 THEN <<"resolve">>
    ELSE IF "fallbackToDataURL" \in faults THEN <<"reject">>
    ELSE <<"resolve">>

\* The calls of resolve and reject the load handler makes, in order, along the
\* path it takes: reject and return without a context; reject in the outer
\* catch when drawImage throws; resolve after the processing; in the inner
\* catch resolve, whose argument is evaluated first, so that when toDataURL
\* throws there resolve is not called and the outer catch rejects.
SettleCalls(ctx, faults, fault) ==
    IF ContextMissing(ctx) THEN <<"reject">>
    ELSE IF "drawImage" \in faults THEN <<"reject">>
    ELSE IF fault = 0 THEN <<"resolve">>
    ELSE IF "fallbackToDataURL" \in faults THEN <<"reject">>
    ELSE <<"resolve">>

\* What the load handler does, given what getContext returned and which of the
\* operations it reaches throw: the settled promise, the canvas, the operations
\* performed, the exceptions thrown and the locals of the processing.
onload(theImg, theConfig, ctx, faults, bestRect) ==
    LET theCanvas == ScaledCanvas(theImg)
        ops == StageOps(theConfig, bestRect)
        fault == FirstFault(ops, faults)
        crop == IF bestRect # Null
                THEN cropWithPerspectiveTransform(theCanvas, bestRect, theConfig.insetMargin)
                ELSE Null
    IN  IF ContextMissing(ctx)
        THEN [promise |-> NoContext, canvas |-> Null, log |-> <<"getContext">>,
              thrown |-> <<>>, proc |-> Null,
              settled |-> SettleCalls(ctx, faults, fault)]
        ELSE IF "drawImage" \in faults
        THEN [promise |-> OuterCatch(Thrown("drawImage")), canvas |-> SizedCanvas(theImg),
              log |-> <<"getContext", "scale", "drawImage">>,
              thrown |-> <<"drawImage">>, proc |-> Null,
              settled |-> SettleCalls(ctx, faults, fault)]
        ELSE IF fault = 0
        THEN [promise |-> Resolved(IF bestRect # Null
                                   THEN CroppedResult(crop, bestRect)
                                   ELSE UncroppedResult(theCanvas)),
              canvas |-> theCanvas,
              log |-> <<"getContext", "scale", "drawImage">> \o ops,
              thrown |-> <<>>,
              proc |-> [bestRect |-> bestRect, crop |-> crop],
              settled |-> SettleCalls(ctx, faults, fault)]
        ELSE [promise |-> Fallback(theCanvas, "fallbackToDataURL" \in faults),
              canvas |-> theCanvas,
              log |-> <<"getContext", "scale", "drawImage">> \o SubSeq(ops, 1, fault)
                        \o <<"fallbackToDataURL">>,
              thrown |-> <<ops[fault]>>
                        \o (IF "fallbackToDataURL" \in faults
                            THEN <<"fallbackToDataURL">> ELSE <<>>),
              proc |-> IF fault = Len(ops)
                       THEN [bestRect |-> bestRect, crop |-> Null]
                       ELSE Null,
              settled |-> SettleCalls(ctx, faults, fault)]

\* An error handler that reports the wrong failure.
onerrorNoContext == NoContext

\* img.onerror = () => reject(new Error('Failed to load image'))
onerror == Rejected([message |-> "Failed to load image"])

\* The calls of resolve and of reject counted, added to the counts so far.
SettleEach(count, calls) ==
    [resolve |-> count.resolve + Cardinality({k \in DOMAIN calls : calls[k] = "resolve"}),
     reject |-> count.reject + Cardinality({k \in DOMAIN calls : calls[k] = "reject"})]

\* One more call of resolve or of reject.
Settle(count, outcome) ==
    IF outcome.state = "resolved"
    THEN [count EXCEPT !.resolve = @ + 1]
    ELSE [count EXCEPT !.reject = @ + 1]

(***************************************************************************)
(* The images and configurations of the pixel-level specification.         *)
(***************************************************************************)
Side == 14          \* side of the square test images
LineLength == 11    \* rows of full contrast in the faded-edge image
MaxDilation == 1    \* largest dilationIterations

Gray(v) == <<v, v, v>>

SolidImage(width, height, rgb) ==
    [width |-> width, height |-> height,
     data |-> [i \in 0..(width * height - 1) |-> rgb]]

\* A rectangle x0..x1 by y0..y1 of colour fg on a background of colour bg.
RectImage(width, height, x0, y0, x1, y1, fg, bg) ==
    [width |-> width, height |-> height,
     data |-> [i \in 0..(width * height - 1) |->
                 IF /\ i % width >= x0 /\ i % width <= x1
                    /\ i \div width >= y0 /\ i \div width <= y1
                 THEN fg ELSE bg]]

\* A vertical edge that sets in sharply from the left and fades out to the right,
\* above and below: intensity column[x] * row[y] percent.
FadedEdgeImage ==
    LET column == <<0, 0, 0, 255, 200, 100, 0, 0>>
        row == <<0, 0, 30, 60>> \o [k \in 1..LineLength |-> 100] \o <<60, 30, 0, 0>>
    IN  [width |-> Len(column), height |-> Len(row),
         data |-> [i \in 0..(Len(column) * Len(row) - 1) |->
                     Gray((column[(i % Len(column)) + 1] * row[(i \div Len(column)) + 1] + 50)
                            \div 100)]]

Black == Gray(0)
White == Gray(255)
Yellow == <<255, 255, 0>>

Images ==
    {SolidImage(Side, Side, Black),
     SolidImage(Side, Side, White),
     RectImage(Side, Side, 4, 4, Side - 5, Side - 5, White, Black),
     RectImage(Side + 2, Side, 3, 4, Side - 2, Side - 4, Yellow, Black),
     FadedEdgeImage}

\* cannyLow and cannyHigh are plain numbers: the defaults, thresholds above
\* every magnitude, a high threshold below every magnitude, and a low one.
Thresholds ==
    {[low |-> 60, high |-> 140], [low |-> 600, high |-> 600],
     [low |-> 60, high |-> -1], [low |-> -1, high |-> 140]}

Configs ==
    {[cannyLow |-> t.low, cannyHigh |-> t.high, dilationIterations |-> d,
      minAreaPercent |-> m, insetMargin |-> i] :
        t \in Thresholds, d \in 0..MaxDilation, m \in {0, 20, 101}, i \in {0, 1, 10}}

\* The sets of operations that throw in one run of the handler: none, any one,
\* or a processing stage together with the fallback's toDataURL.
FaultSets ==
    {{}} \cup {{f} : f \in Stages \cup {"drawImage", "fallbackToDataURL"}}
         \cup {{f, "fallbackToDataURL"} : f \in Stages}

Init ==
    /\ img \in Images
    /\ config \in Configs
    /\ promise = PendingPromise
    /\ canvas = Null
    /\ log = <<>>
    /\ thrown = <<>>
    /\ dom = [event |-> "none", ctx |-> "none"]
    /\ proc = Null
    /\ settles = [resolve |-> 0, reject |-> 0]
    /\ call = Null
    /\ ret = Null

\* Every way img.onload can run on the image: getContext returns a context or
\* null, and the operations of one fault set throw. Each outcome records the
\* environment's choice with what the handler did.
OutcomesUnder(theImg, theConfig, faultSets) ==
    LET bestRect == BestRectOf(ScaledCanvas(theImg), theConfig)
    IN  {[ctx |-> ctx, faults |-> faults,
          run |-> onload(theImg, theConfig, ctx, faults, bestRect)] :
            ctx \in {"2d", "null"}, faults \in faultSets}

Outcomes(theImg, theConfig) == OutcomesUnder(theImg, theConfig, FaultSets)

\* The image loads: img.onload runs to completion.
Onload ==
    /\ dom.event = "none"
    /\ \E out \in Outcomes(img, config) :
         /\ dom' = [event |-> "load", ctx |-> out.ctx]
         /\ promise' = out.run.promise
         /\ canvas' = out.run.canvas
         /\ log' = out.run.log
         /\ thrown' = out.run.thrown
         /\ proc' = out.run.proc
         /\ settles' = SettleEach(settles, out.run.settled)
    /\ UNCHANGED <<img, config, call, ret>>

\* The image fails to load: img.onerror runs.
Onerror ==
    /\ dom.event = "none"
    /\ dom' = [event |-> "error", ctx |-> "none"]
    /\ promise' = onerror
    /\ settles' = Settle(settles, onerror)
    /\ UNCHANGED <<img, config, canvas, log, thrown, proc, call, ret>>

Next == Onload \/ Onerror

Spec == Init /\ [][Next]_vars

(***************************************************************************)
(* Properties of cropToInnerRectangle.                                     *)
(***************************************************************************)
Range(f) == {f[k] : k \in DOMAIN f}

Loaded == dom.event = "load"
GotContext == Loaded /\ dom.ctx = "2d"
StageThrew == GotContext /\ thrown # <<>> /\ thrown[1] \in Stages
Clean == GotContext /\ thrown = <<>>
SettledOnce == settles.resolve + settles.reject = 1

\* C1 as claimed: once the image has loaded and a context was obtained, an
\* exception thrown by a processing stage never rejects the promise, which
\* resolves with the uncropped scaled canvas and the canvas's width and height.
C1_StageFailureAlwaysResolves ==
    StageThrew => promise = Resolved(UncroppedResult(canvas))

\* C1 as amended: the stage's exception is caught and is never the rejection
\* error; the handler encodes the uncropped canvas and resolves with it and the
\* canvas's width and height, unless that encoding throws too, and then the
\* promise rejects with the encoding's error.
C1_StageFailureFallsBack ==
    StageThrew =>
        /\ Last(log) = "fallbackToDataURL"
        /\ promise.error # Thrown(thrown[1])
        /\ IF "fallbackToDataURL" \in Range(thrown)
           THEN promise = Rejected(Thrown("fallbackToDataURL"))
           ELSE /\ promise = Resolved(UncroppedResult(canvas))
                /\ promise.value.width = canvas.width
                /\ promise.value.height = canvas.height
                /\ promise.value.imageUrl = toDataURL("canvas", canvas.width, canvas.height)

C1_Witness ==
    /\ StageThrew
    /\ thrown = <<"cropWithPerspectiveTransform">>
    /\ promise.state = "resolved"

\* C2: when the image's error event fires the promise rejects with 'Failed to
\* load image', no processing stage runs and no result value is produced.
C2_LoadFailureRejects ==
    dom.event = "error" =>
        /\ promise = Rejected([message |-> "Failed to load image"])
        /\ promise.value = Null
        /\ log = <<>>
        /\ canvas = Null
        /\ proc = Null
        /\ settles = [resolve |-> 0, reject |-> 1]

C2_Witness == dom.event = "error" /\ promise.state = "rejected" /\ settles.reject = 1

\* C3 as claimed: in every execution in which the load event fires the promise
\* resolves with a result and never rejects, whatever fails afterwards.
C3_LoadAlwaysResolves ==
    Loaded => promise.state = "resolved"

\* C3 as amended: after the load event the promise settles exactly once; it
\* rejects exactly when getContext returned null, drawImage threw or the
\* fallback's toDataURL threw, and resolves with a result in every other case,
\* a failing processing stage included.
C3_RejectsOnlyOutsideProcessing ==
    Loaded =>
        /\ SettledOnce
        /\ promise.state \in {"resolved", "rejected"}
        /\ promise.state = "rejected" <=>
             \/ dom.ctx = "null"
             \/ "drawImage" \in Range(thrown)
             \/ "fallbackToDataURL" \in Range(thrown)
        /\ promise.state = "resolved" => promise.value # Null
        /\ promise.state = "rejected" => promise.error # Null

C3_Witness ==
    /\ GotContext
    /\ promise = Rejected(Thrown("drawImage"))

\* C4: when the image has loaded but getContext('2d') returns null the promise
\* rejects with 'Could not get canvas context', and the handler neither sizes the
\* canvas, nor draws, nor runs a processing stage.
C4_NoContextRejects ==
    Loaded /\ dom.ctx = "null" =>
        /\ promise = Rejected([message |-> "Could not get canvas context"])
        /\ log = <<"getContext">>
        /\ canvas = Null
        /\ proc = Null
        /\ thrown = <<>>
        /\ settles = [resolve |-> 0, reject |-> 1]

C4_Witness == Loaded /\ dom.ctx = "null" /\ promise.state = "rejected"

\* C27: once the image has fired load or error, resolve and reject have been
\* called exactly once between them, on every path of the handlers, and the
\* promise is in the state of that one call.
C27_SettledExactlyOnce ==
    dom.event # "none" =>
        /\ SettledOnce
        /\ promise.state = "resolved" <=> settles = [resolve |-> 1, reject |-> 0]
        /\ promise.state = "rejected" <=> settles = [resolve |-> 0, reject |-> 1]

\* A processing stage threw and so did the fallback's toDataURL: reject was
\* called once, in the outer catch, and resolve never.
C27_Witness ==
    /\ StageThrew
    /\ "fallbackToDataURL" \in Range(thrown)
    /\ settles = [resolve |-> 0, reject |-> 1]

AllBlack(theImg) == \A i \in DOMAIN theImg.data : theImg.data[i] = Black

\* C5 as claimed: whenever no rectangle qualifies, and so for an all-black
\* image under any configuration and for any image when minAreaPercent exceeds
\* 100, the pipeline applies no crop and returns the scaled canvas's width and
\* height.
C5_NoRectangleNoCrop ==
    Clean =>
        /\ AllBlack(img) \/ config.minAreaPercent > 100 => proc.bestRect = Null
        /\ proc.bestRect = Null =>
             /\ "cropWithPerspectiveTransform" \notin Range(log)
             /\ proc.crop = Null
             /\ promise = Resolved(UncroppedResult(canvas))
             /\ promise.value.width = canvas.width
             /\ promise.value.height = canvas.height

\* C5 as amended: whenever no rectangle qualifies, and so for an all-black
\* image under any configuration whose cannyHigh is not negative and for any
\* image when minAreaPercent exceeds 100, the pipeline applies no crop and
\* returns the scaled canvas's width and height.
C5_NoRectangleNoCropAmended ==
    Clean =>
        /\ (AllBlack(img) /\ config.cannyHigh >= 0) \/ config.minAreaPercent > 100
             => proc.bestRect = Null
        /\ proc.bestRect = Null =>
             /\ "cropWithPerspectiveTransform" \notin Range(log)
             /\ proc.crop = Null
             /\ promise = Resolved(UncroppedResult(canvas))
             /\ promise.value.width = canvas.width
             /\ promise.value.height = canvas.height

\* An all-black image under a negative cannyLow, where every interior pixel is
\* a weak edge and none is kept: no rectangle, and the canvas is returned whole.
C5_Witness ==
    /\ Clean
    /\ AllBlack(img)
    /\ config.cannyLow < 0
    /\ config.cannyHigh >= 0
    /\ config.dilationIterations = 0
    /\ config.minAreaPercent = 0
    /\ proc.bestRect = Null
    /\ promise = Resolved(UncroppedResult(canvas))

Cropped == Clean /\ proc.bestRect # Null

\* C6 as claimed: when a rectangle is selected and cropped, the returned width
\* and height are those of the cropped canvas, the rectangle's size less twice
\* the applied inset.
C6_ReturnedSizeIsCropSize ==
    Cropped =>
        /\ promise.value.width = proc.crop.width
        /\ promise.value.height = proc.crop.height

\* C7 as claimed: for every rectangle findBestRectangle selects and every
\* insetMargin the crop has width > 0 and height > 0.
C7_CropIsNeverEmpty ==
    Cropped =>
        /\ proc.crop.cropWidth > 0
        /\ proc.crop.cropHeight > 0

(***************************************************************************)
(* Scaling alone: the load handler up to the sizing of the canvas, on      *)
(* images of every size of Sizes; the pixels play no part.                 *)
(***************************************************************************)
SmallSide == 50     \* sides 1..SmallSide
LargeSides == {1399, 1400, 1401, 1402, 1800, 2000, 2800, 3000}
Sizes == (1..SmallSide) \cup LargeSides

Idle ==
    /\ promise = PendingPromise
    /\ log = <<>>
    /\ thrown = <<>>
    /\ dom = [event |-> "none", ctx |-> "none"]
    /\ proc = Null
    /\ settles = [resolve |-> 0, reject |-> 0]

ScaleInit ==
    /\ img \in {[width |-> w, height |-> h, data |-> <<>>] : w \in Sizes, h \in Sizes}
    /\ config = Null
    /\ canvas = Null
    /\ call = Null
    /\ ret = Null
    /\ Idle

\* canvas.width = Math.round(img.width * scale); canvas.height likewise.
SizeCanvas ==
    /\ dom.event = "none"
    /\ dom' = [event |-> "load", ctx |-> "2d"]
    /\ canvas' = SizedCanvas(img)
    /\ log' = <<"getContext", "scale">>
    /\ UNCHANGED <<img, config, promise, thrown, proc, settles, call, ret>>

ScaleNext == SizeCanvas

SpecScale == ScaleInit /\ [][ScaleNext]_vars

Longest(size) == Max(size.width, size.height)

\* Math.round of the rational n / d, d > 0.
RoundRatio(n, d) == (2 * n + d) \div (2 * d)

\* k is a nearest integer to n / d.
Nearest(k, n, d) == 2 * Abs(k * d - n) <= d

\* C8 as claimed: an image whose longest side is at most 1400 gets a canvas of
\* its own size; otherwise the canvas's longest side is exactly 1400 and the
\* other is round(side * 1400 / longest).
C8_ExactlyRounded ==
    canvas # Null =>
        IF Longest(img) <= maxSide
        THEN canvas.width = img.width /\ canvas.height = img.height
        ELSE /\ Longest(canvas) = maxSide
             /\ canvas.width = RoundRatio(img.width * maxSide, Longest(img))
             /\ canvas.height = RoundRatio(img.height * maxSide, Longest(img))

\* C8 as amended: an image whose longest side is at most 1400 gets a canvas of
\* its own size; otherwise the canvas's longest side is exactly 1400, the other
\* side is an integer nearest to side * 1400 / longest (either neighbour when
\* that lies exactly half way), and neither side exceeds 1400.
C8_NearestInteger ==
    canvas # Null =>
        IF Longest(img) <= maxSide
        THEN canvas.width = img.width /\ canvas.height = img.height
        ELSE /\ Longest(canvas) = maxSide
             /\ Nearest(canvas.width, img.width * maxSide, Longest(img))
             /\ Nearest(canvas.height, img.height * maxSide, Longest(img))
             /\ canvas.width <= maxSide /\ canvas.height <= maxSide

C8_Witness ==
    /\ canvas # Null
    /\ img.width = 2000 /\ img.height = 45
    /\ canvas.width = maxSide /\ canvas.height = 31

(***************************************************************************)
(* applyDilation alone, on the masks the edge detection can hand it: no    *)
(* pixel of the border row or column is set.                               *)
(***************************************************************************)
MaskWidth == 6
MaskHeight == 5
MaxSet == 3         \* most pixels set in a mask
MaxIterations == 2  \* most iterations

Mask(width, height, set) ==
    [i \in 0..(width * height - 1) |-> IF i \in set THEN 255 ELSE 0]

Masks ==
    LET inside == {i \in 0..(MaskWidth * MaskHeight - 1) :
                     Interior(i % MaskWidth, i \div MaskWidth, MaskWidth, MaskHeight)}
    IN  {Mask(MaskWidth, MaskHeight, set) : set \in {t \in SUBSET inside : Cardinality(t) <= MaxSet}}

DilateInit ==
    /\ call \in {[edgeData |-> m, width |-> MaskWidth, height |-> MaskHeight, iterations |-> n] :
                   m \in Masks, n \in 0..MaxIterations}
    /\ ret = Null
    /\ img = Null
    /\ config = Null
    /\ canvas = Null
    /\ Idle

Dilate ==
    /\ ret = Null
    /\ ret' = applyDilation(call.edgeData, call.width, call.height, call.iterations)
    /\ UNCHANGED <<img, config, promise, canvas, log, thrown, dom, proc, settles, call>>

DilateNext == Dilate

SpecDilate == DilateInit /\ [][DilateNext]_vars

Chebyshev(i, j, width) ==
    Max(Abs((i % width) - (j % width)), Abs((i \div width) - (j \div width)))

\* The pixels within Chebyshev distance n of a set pixel of mask.
Ball(mask, width, n) ==
    [i \in DOMAIN mask |->
        IF \E j \in DOMAIN mask : mask[j] = 255 /\ Chebyshev(i, j, width) <= n
        THEN 255 ELSE 0]

\* C9: applyDilation with N iterations sets exactly the pixels within Chebyshev
\* distance N of a pixel set in its input, each iteration adding the 8 neighbours
\* of the pixels set before it, and with N = 0 returns the input unchanged.
C9_DilationIsChebyshevBall ==
    ret # Null =>
        /\ ret = Ball(call.edgeData, call.width, call.iterations)
        /\ call.iterations = 0 => ret = call.edgeData
        /\ call.iterations > 0 =>
             ret = Ball(applyDilation(call.edgeData, call.width, call.height,
                                      call.iterations - 1), call.width, 1)

C9_Witness ==
    /\ ret # Null
    /\ call.iterations = 1
    /\ call.edgeData = Mask(MaskWidth, MaskHeight, {MaskWidth + 1, 2 * MaskWidth + 3})
    /\ ret # call.edgeData
    /\ \E i \in DOMAIN ret : ret[i] = 0

(***************************************************************************)
(* mirrorImage: the call creates a promise and an Image and returns the    *)
(* promise pending; the promise is settled by the handler that runs when   *)
(* the image has loaded or has failed to load.  The load handler draws the *)
(* image on a canvas of its own size under a scaling of the context.  A    *)
(* pixel is a unit square of user space; the context maps the square to    *)
(* device space, where it covers one pixel of the canvas or lies outside   *)
(* it.  The data URL the promise is resolved with stands for the canvas's  *)
(* pixels, and loading it gives an image of those pixels.                  *)
(***************************************************************************)
\* The canvas column (row) covered by the image column (row) x drawn at offset d
\* under the scale factor s, which is 1 or -1.
DevicePixel(s, d, x) == IF s = 1 THEN d + x ELSE -(d + x) - 1

\* ctx.scale(sx, sy); ctx.drawImage(img, dx, dy) on a cleared canvas of the
\* image's size; a canvas pixel no image pixel covers stays transparent.
Draw(theImg, t) ==
    [width |-> theImg.width, height |-> theImg.height,
     data |-> [p \in 0..(theImg.width * theImg.height - 1) |->
                 LET covering == {q \in DOMAIN theImg.data :
                                    /\ DevicePixel(t.sx, t.dx, q % theImg.width) = p % theImg.width
                                    /\ DevicePixel(t.sy, t.dy, q \div theImg.width) = p \div theImg.width}
                 IN  IF covering = {} THEN "transparent"
                     ELSE theImg.data[CHOOSE q \in covering : TRUE]]]

\* A chain of tests that reaches the branch of one flag before that of both.
MirrorTransformOneFirst(mirrorX, mirrorY, width, height) ==
    IF mirrorX THEN [sx |-> -1, sy |-> 1, dx |-> -width, dy |-> 0]
    ELSE IF mirrorY THEN [sx |-> 1, sy |-> -1, dx |-> 0, dy |-> -height]
    ELSE [sx |-> 1, sy |-> 1, dx |-> 0, dy |-> 0]

\* The scale factors and the drawing offset of the four branches.
MirrorTransform(mirrorX, mirrorY, width, height) ==
    IF mirrorX /\ mirrorY THEN [sx |-> -1, sy |-> -1, dx |-> -width, dy |-> -height]
    ELSE IF mirrorX THEN [sx |-> -1, sy |-> 1, dx |-> -width, dy |-> 0]
    ELSE IF mirrorY THEN [sx |-> 1, sy |-> -1, dx |-> 0, dy |-> -height]
    ELSE [sx |-> 1, sy |-> 1, dx |-> 0, dy |-> 0]

\* The canvas after the drawing of the load handler.
mirrorImage(theImg, mirrorX, mirrorY) ==
    Draw(theImg, MirrorTransform(mirrorX, mirrorY, theImg.width, theImg.height))

\* img.onload: without a context reject and return, otherwise draw and
\* resolve(canvas.toDataURL()).
MirrorOnloadSettles(theImg, flags, ctx) ==
    IF ctx = "null"
    THEN Rejected([message |-> "Could not get canvas context"])
    ELSE Resolved(mirrorImage(theImg, flags.mirrorX, flags.mirrorY))

\* img.onerror
MirrorOnerrorSettles == Rejected([message |-> "Failed to load image"])

MirrorSide == 3     \* largest width and height
MaxMirrors == 2     \* most successive calls

\* The image of the given size whose pixels all differ.
Labelled(width, height) ==
    [width |-> width, height |-> height,
     data |-> [i \in 0..(width * height - 1) |-> i]]

\* The image of the given size in two colours, one row and one column set apart.
Striped(width, height) ==
    [width |-> width, height |-> height,
     data |-> [i \in 0..(width * height - 1) |->
                 IF i % width = 0 \/ i \div width = 0 THEN 255 ELSE 0]]

MirrorImages ==
    {Labelled(w, h) : w \in 1..MirrorSide, h \in 1..MirrorSide}
    \cup {Striped(w, h) : w \in 1..MirrorSide, h \in 1..MirrorSide}

MirrorInit ==
    /\ img \in MirrorImages
    /\ canvas = Null
    /\ call = <<>>
    /\ ret = img
    /\ config = Null
    /\ promise = Null
    /\ log = <<>>
    /\ thrown = <<>>
    /\ dom = [event |-> "none", ctx |-> "none"]
    /\ proc = Null
    /\ settles = [resolve |-> 0, reject |-> 0]

\* mirrorImage is called with the URL of the image the last fulfilled call
\* gave, after the promise of the call before has been settled: the handlers
\* are set, img.src is assigned and the promise is returned pending.  call
\* lists the flags of the calls so far.
MirrorCall ==
    /\ promise # PendingPromise
    /\ Len(call) < MaxMirrors
    /\ \E mirrorX \in BOOLEAN, mirrorY \in BOOLEAN :
         call' = Append(call, [mirrorX |-> mirrorX, mirrorY |-> mirrorY])
    /\ promise' = PendingPromise
    /\ dom' = [event |-> "none", ctx |-> "none"]
    /\ UNCHANGED <<img, config, canvas, log, thrown, proc, settles, ret>>

\* The image loads and img.onload runs: getContext returns a context or null.
\* log lists how the promises of the calls were settled, and ret is the image
\* of the last data URL a promise was resolved with.
MirrorOnload ==
    /\ promise = PendingPromise
    /\ \E ctx \in {"2d", "null"} :
         /\ dom' = [event |-> "load", ctx |-> ctx]
         /\ promise' = MirrorOnloadSettles(ret, call[Len(call)], ctx)
    /\ ret' = IF promise'.state = "resolved" THEN promise'.value ELSE ret
    /\ log' = Append(log, promise'.state)
    /\ settles' = Settle(settles, promise')
    /\ UNCHANGED <<img, config, canvas, thrown, proc, call>>

\* The image fails to load and img.onerror runs.
MirrorOnerror ==
    /\ promise = PendingPromise
    /\ dom' = [event |-> "error", ctx |-> "none"]
    /\ promise' = MirrorOnerrorSettles
    /\ log' = Append(log, promise'.state)
    /\ settles' = Settle(settles, promise')
    /\ UNCHANGED <<img, config, canvas, thrown, proc, call, ret>>

MirrorNext == MirrorCall \/ MirrorOnload \/ MirrorOnerror

SpecMirror == MirrorInit /\ [][MirrorNext]_vars

Horizontal == [mirrorX |-> TRUE, mirrorY |-> FALSE]
Vertical == [mirrorX |-> FALSE, mirrorY |-> TRUE]
Both == [mirrorX |-> TRUE, mirrorY |-> TRUE]

\* The image turned by 180 degrees: the pixels in reverse order.
Rotate180(theImg) ==
    [theImg EXCEPT !.data = [i \in DOMAIN theImg.data |->
                               theImg.data[theImg.width * theImg.height - 1 - i]]]

\* Pixel (x, y) of the source is pixel (w-1-x, h-1-y) of the result.
PointReflected(source, result) ==
    /\ result.width = source.width /\ result.height = source.height
    /\ \A x \in 0..(source.width - 1), y \in 0..(source.height - 1) :
         result.data[(source.height - 1 - y) * source.width + (source.width - 1 - x)]
           = source.data[y * source.width + x]

\* C10: mirrorImage with both flags maps pixel (x, y) of a w x h image to
\* (w-1-x, h-1-y); the horizontal mirror followed by the vertical one, and the
\* vertical followed by the horizontal, give the same image, the image turned by
\* 180 degrees.
C10_BothFlagsRotate ==
    (/\ call \in {<<Both>>, <<Horizontal, Vertical>>, <<Vertical, Horizontal>>}
     /\ Len(log) = Len(call)
     /\ \A k \in DOMAIN log : log[k] = "resolved") =>
        /\ promise = Resolved(ret)
        /\ PointReflected(img, ret)
        /\ ret = Rotate180(img)
        /\ ret = mirrorImage(img, TRUE, TRUE)

\* A call with both flags on an image whose pixels all differ, resolved with
\* the image turned round.
C10_Witness ==
    /\ call = <<Both>>
    /\ log = <<"resolved">>
    /\ img = Labelled(MirrorSide, MirrorSide - 1)
    /\ ret.data[0] = MirrorSide * (MirrorSide - 1) - 1
    /\ ret # img

(***************************************************************************)
(* Several invocations of cropToInnerRectangle in flight.  Every call      *)
(* creates its own promise and Image and captures its own config in the    *)
(* closures of the two handlers; the module keeps no variable of its own   *)
(* besides the constant DEFAULT_CROP_CONFIG.  The variables hold one value *)
(* per invocation; call lists the invocations in the order of the calls    *)
(* and log the events in the order the handlers ran.                       *)
(***************************************************************************)
Invocations == {"a", "b"}

ReentrantImages ==
    {RectImage(10, 9, 3, 3, 6, 5, White, Black),
     SolidImage(9, 9, White)}

ReentrantConfigs ==
    {[cannyLow |-> 60, cannyHigh |-> 140, dilationIterations |-> 0,
      minAreaPercent |-> m, insetMargin |-> 1] : m \in {20, 101}}

ReentrantFaults == {{}}

\* A module-level variable that every call overwrites would give the handler
\* the config of the latest call.
LatestConfig(configs, calls, i) == configs[Last(calls)]

\* The config the handlers of invocation i see: the parameter of their own call.
ClosureConfig(configs, calls, i) == configs[i]

ReentrantInit ==
    /\ img = [i \in Invocations |-> Null]
    /\ config = [i \in Invocations |-> Null]
    /\ promise = [i \in Invocations |-> Null]
    /\ canvas = [i \in Invocations |-> Null]
    /\ dom = [i \in Invocations |-> [event |-> "none", ctx |-> "none"]]
    /\ thrown = [i \in Invocations |-> <<>>]
    /\ proc = [i \in Invocations |-> Null]
    /\ settles = [i \in Invocations |-> [resolve |-> 0, reject |-> 0]]
    /\ call = <<>>
    /\ log = <<>>
    /\ ret = Null

\* cropToInnerRectangle(imageUrl, config): the executor creates the Image, sets
\* the handlers and the src, and returns the pending promise.
Invoke(i) ==
    /\ promise[i] = Null
    /\ \E theImg \in ReentrantImages, theConfig \in ReentrantConfigs :
         /\ img' = [img EXCEPT ![i] = theImg]
         /\ config' = [config EXCEPT ![i] = theConfig]
    /\ promise' = [promise EXCEPT ![i] = PendingPromise]
    /\ call' = Append(call, i)
    /\ UNCHANGED <<canvas, dom, thrown, proc, settles, log, ret>>

\* The load event of invocation i: its onload runs to completion.
OnloadOf(i) ==
    /\ promise[i] = PendingPromise
    /\ \E out \in OutcomesUnder(img[i], ClosureConfig(config, call, i), ReentrantFaults) :
         /\ dom' = [dom EXCEPT ![i] = [event |-> "load", ctx |-> out.ctx]]
         /\ promise' = [promise EXCEPT ![i] = out.run.promise]
         /\ canvas' = [canvas EXCEPT ![i] = out.run.canvas]
         /\ thrown' = [thrown EXCEPT ![i] = out.run.thrown]
         /\ proc' = [proc EXCEPT ![i] = out.run.proc]
         /\ settles' = [settles EXCEPT ![i] = Settle(@, out.run.promise)]
    /\ log' = Append(log, [invocation |-> i, event |-> "load"])
    /\ UNCHANGED <<img, config, call, ret>>

\* The error event of invocation i.
OnerrorOf(i) ==
    /\ promise[i] = PendingPromise
    /\ dom' = [dom EXCEPT ![i] = [event |-> "error", ctx |-> "none"]]
    /\ promise' = [promise EXCEPT ![i] = onerror]
    /\ settles' = [settles EXCEPT ![i] = Settle(@, onerror)]
    /\ log' = Append(log, [invocation |-> i, event |-> "error"])
    /\ UNCHANGED <<img, config, canvas, thrown, proc, call, ret>>

ReentrantNext == \E i \in Invocations : Invoke(i) \/ OnloadOf(i) \/ OnerrorOf(i)

SpecReentrant == ReentrantInit /\ [][ReentrantNext]_vars

CleanAt(i) == dom[i] = [event |-> "load", ctx |-> "2d"] /\ thrown[i] = <<>>

\* C11: with several invocations in flight and their load callbacks running in
\* any order, the result a load handler has just produced is the result of the
\* pipeline on its own image and config, so two invocations with the same image
\* and config return the same width and height.
C11_Reentrant ==
    /\ \A i \in Invocations :
         CleanAt(i) /\ Last(log).invocation = i =>
           promise[i] = Resolved(processImageWithJavaScript(ScaledCanvas(img[i]), config[i]))
    /\ \A i, j \in Invocations :
         CleanAt(i) /\ CleanAt(j) /\ img[i] = img[j] /\ config[i] = config[j] =>
           /\ promise[i].value.width = promise[j].value.width
           /\ promise[i].value.height = promise[j].value.height

C11_Witness ==
    /\ call = <<"a", "b">>
    /\ log = <<[invocation |-> "b", event |-> "load"], [invocation |-> "a", event |-> "load"]>>
    /\ CleanAt("a") /\ CleanAt("b")
    /\ img["a"] = img["b"] /\ config["a"] = config["b"]
    /\ proc["a"].bestRect # Null
    /\ promise["a"].value.width = promise["b"].value.width

(***************************************************************************)
(* createRotatedImageOverlay and processHouseImage.  A coordinate array is *)
(* a sequence of <<lat, lng>> pairs, so coordinates[k] of the code is      *)
(* coordinates[k + 1] here.  A result without the fields width and height  *)
(* is the code's { imageUrl, width: undefined, height: undefined }.  A     *)
(* data URL is named by what produced it.  Each await is a point where the *)
(* awaited promise settles: proc.pc names the await the function is at,    *)
(* thrown lists the rejections it caught and log its console.error calls.  *)
(***************************************************************************)
\* The data URL mirrorImage resolves with.
Mirrored(imageUrl, mirrorX, mirrorY) ==
    [mirrored |-> imageUrl, mirrorX |-> mirrorX, mirrorY |-> mirrorY]

HasDimensions(image) == {"width", "height"} \subseteq DOMAIN image

\* !imageWidth || !imageHeight
DimensionsUnknown(image) ==
    ~HasDimensions(image) \/ image.width = 0 \/ image.height = 0

SquaredLength(p, q) == (q[1] - p[1]) * (q[1] - p[1]) + (q[2] - p[2]) * (q[2] - p[2])

\* Bounds that ignore that the dimensions are unknown.
calculateOptimalImageBoundsAlways(coordinates, image) ==
    <<coordinates[4], coordinates[1], coordinates[2], coordinates[3]>>

\* image carries imageWidth and imageHeight.
calculateOptimalImageBounds(coordinates, image) ==
    IF DimensionsUnknown(image) THEN coordinates
    ELSE LET polygonLongerSideIsFirst ==
                 SquaredLength(coordinates[1], coordinates[2])
                   > SquaredLength(coordinates[2], coordinates[3])
             imageIsWider == image.width > image.height
         IN  IF polygonLongerSideIsFirst /\ imageIsWider
             THEN <<coordinates[3], coordinates[4], coordinates[1], coordinates[2]>>
             ELSE IF ~polygonLongerSideIsFirst /\ imageIsWider
             THEN <<coordinates[1], coordinates[2], coordinates[3], coordinates[4]>>
             ELSE <<coordinates[4], coordinates[1], coordinates[2], coordinates[3]>>

\* L.imageOverlay.rotated(url, topleft, topright, bottomleft)
Rotated(imageUrl, topleft, topright, bottomleft) ==
    [imageUrl |-> imageUrl, topleft |-> topleft, topright |-> topright,
     bottomleft |-> bottomleft]

\* The overlay createRotatedImageOverlay builds from what processHouseImage returned.
Overlay(processed, coordinates) ==
    LET imageBounds == calculateOptimalImageBounds(coordinates, processed)
    IN  Rotated(processed.imageUrl, imageBounds[4], imageBounds[1], imageBounds[3])

\* The return statements of processHouseImage's catch block.
Unprocessed(imageUrl) == [imageUrl |-> imageUrl]

Quads ==
    {<<<<0, 0>>, <<0, 4>>, <<2, 4>>, <<2, 0>>>>,
     <<<<0, 0>>, <<0, 2>>, <<4, 2>>, <<4, 0>>>>,
     <<<<1, 1>>, <<3, 4>>, <<5, 3>>, <<3, 0>>>>,
     <<<<0, 0>>, <<0, 3>>, <<3, 3>>, <<3, 0>>>>}

CroppedImages ==
    {[imageUrl |-> "cropped", width |-> w, height |-> h] :
        w \in {0, 300, 400}, h \in {0, 300, 400}}

OverlayInit ==
    /\ call \in {[imageUrl |-> "house", coordinates |-> q, mirrorX |-> mx, mirrorY |-> my] :
                   q \in Quads, mx \in BOOLEAN, my \in BOOLEAN}
    /\ proc = [pc |-> "awaitCrop", croppedImage |-> Null, processed |-> Null]
    /\ promise = PendingPromise
    /\ ret = Null
    /\ log = <<>>
    /\ thrown = <<>>
    /\ img = Null
    /\ config = Null
    /\ canvas = Null
    /\ dom = [event |-> "none", ctx |-> "none"]
    /\ settles = [resolve |-> 0, reject |-> 0]

Mirroring == call.mirrorX \/ call.mirrorY

\* await cropToInnerRectangle(imageUrl) resolves.
CropResolves ==
    /\ proc.pc = "awaitCrop"
    /\ \E croppedImage \in CroppedImages :
         proc' = IF Mirroring
                 THEN [proc EXCEPT !.pc = "awaitMirror", !.croppedImage = croppedImage]
                 ELSE [proc EXCEPT !.pc = "awaitProcessed", !.croppedImage = croppedImage,
                                   !.processed = croppedImage]
    /\ UNCHANGED <<img, config, promise, canvas, log, thrown, dom, settles, call, ret>>

\* await cropToInnerRectangle(imageUrl) rejects: the catch block.
CropRejects ==
    /\ proc.pc = "awaitCrop"
    /\ thrown' = Append(thrown, "cropToInnerRectangle")
    /\ log' = Append(log, "Failed to process house image:")
    /\ proc' = IF Mirroring
               THEN [proc EXCEPT !.pc = "awaitFallbackMirror"]
               ELSE [proc EXCEPT !.pc = "awaitProcessed",
                                 !.processed = Unprocessed(call.imageUrl)]
    /\ UNCHANGED <<img, config, promise, canvas, dom, settles, call, ret>>

\* await mirrorImage(croppedImage.imageUrl, mirrorX, mirrorY) resolves.
MirrorResolves ==
    /\ proc.pc = "awaitMirror"
    /\ proc' = [proc EXCEPT !.pc = "awaitProcessed",
                  !.processed = [imageUrl |-> Mirrored(proc.croppedImage.imageUrl,
                                                       call.mirrorX, call.mirrorY),
                                 width |-> proc.croppedImage.width,
                                 height |-> proc.croppedImage.height]]
    /\ UNCHANGED <<img, config, promise, canvas, log, thrown, dom, settles, call, ret>>

\* await mirrorImage(croppedImage.imageUrl, ...) rejects: the same catch block,
\* reached with a mirror flag set.
MirrorRejects ==
    /\ proc.pc = "awaitMirror"
    /\ thrown' = Append(thrown, "mirrorImage")
    /\ log' = Append(log, "Failed to process house image:")
    /\ proc' = [proc EXCEPT !.pc = "awaitFallbackMirror"]
    /\ UNCHANGED <<img, config, promise, canvas, dom, settles, call, ret>>

\* await mirrorImage(imageUrl, mirrorX, mirrorY) in the catch block resolves.
FallbackMirrorResolves ==
    /\ proc.pc = "awaitFallbackMirror"
    /\ proc' = [proc EXCEPT !.pc = "awaitProcessed",
                  !.processed = Unprocessed(Mirrored(call.imageUrl, call.mirrorX, call.mirrorY))]
    /\ UNCHANGED <<img, config, promise, canvas, log, thrown, dom, settles, call, ret>>

\* await mirrorImage(imageUrl, ...) in the catch block rejects: the inner catch.
FallbackMirrorRejects ==
    /\ proc.pc = "awaitFallbackMirror"
    /\ thrown' = Append(thrown, "fallbackMirrorImage")
    /\ log' = Append(log, "Failed to mirror fallback image:")
    /\ proc' = [proc EXCEPT !.pc = "awaitProcessed",
                            !.processed = Unprocessed(call.imageUrl)]
    /\ UNCHANGED <<img, config, promise, canvas, dom, settles, call, ret>>

\* await processHouseImage(...) resolves in createRotatedImageOverlay, which
\* computes the bounds, creates the overlay and returns it.
CreateOverlay ==
    /\ proc.pc = "awaitProcessed"
    /\ ret' = Overlay(proc.processed, call.coordinates)
    /\ promise' = Resolved(Overlay(proc.processed, call.coordinates))
    /\ settles' = Settle(settles, Resolved(Overlay(proc.processed, call.coordinates)))
    /\ proc' = [proc EXCEPT !.pc = "done"]
    /\ UNCHANGED <<img, config, canvas, log, thrown, dom, call>>

OverlayNext ==
    \/ CropResolves \/ CropRejects
    \/ MirrorResolves \/ MirrorRejects
    \/ FallbackMirrorResolves \/ FallbackMirrorRejects
    \/ CreateOverlay

SpecOverlay == OverlayInit /\ [][OverlayNext]_vars

CropFailed == thrown # <<>> /\ thrown[1] = "cropToInnerRectangle"

\* C12: when cropToInnerRectangle rejects, createRotatedImageOverlay does not
\* reject; processHouseImage resolves with the original URL, or with its mirror
\* image when a flag is set and that mirroring succeeds, and with no dimensions,
\* and the overlay is anchored at coordinates[3], coordinates[0], coordinates[2]
\* of the polygon as given.
C12_CropFailureFallsBack ==
    CropFailed =>
        /\ promise.state # "rejected"
        /\ proc.pc \in {"awaitProcessed", "done"} =>
             /\ ~HasDimensions(proc.processed)
             /\ proc.processed.imageUrl =
                  IF Mirroring /\ thrown = <<"cropToInnerRectangle">>
                  THEN Mirrored(call.imageUrl, call.mirrorX, call.mirrorY)
                  ELSE call.imageUrl
        /\ proc.pc = "done" =>
             /\ promise.state = "resolved"
             /\ ret = Rotated(proc.processed.imageUrl, call.coordinates[4],
                              call.coordinates[1], call.coordinates[3])

C12_Witness ==
    /\ thrown = <<"cropToInnerRectangle", "fallbackMirrorImage">>
    /\ proc.pc = "done"
    /\ call.mirrorX /\ ~call.mirrorY
    /\ ret.imageUrl = "house"
    /\ ret.topleft = <<3, 0>>

(***************************************************************************)
(* fetchLandData, parseWKTGeometry and transformCoordinates.  The          *)
(* libraries are given by what they return on the sample texts: parse maps *)
(* a WKT text to a GeoJSON geometry or null, proj4 maps an EPSG:2180       *)
(* position to the pair <<lon, lat>>, kept here as the two terms           *)
(* <<"lon", x, y>> and <<"lat", x, y>>.                                    *)
(***************************************************************************)
Ring == <<<<10, 20>>, <<10, 30>>, <<15, 30>>, <<10, 20>>>>

WktTexts ==
    {"POLYGON((10 20,10 30,15 30,10 20))", "POLYGON EMPTY",
     "MULTILINESTRING((10 20,10 30))", "POINT(10 20)", "-1 brak wynikow", ""}

\* wellknown's parse on the sample texts.
parse(wktData) ==
    CASE wktData = "POLYGON((10 20,10 30,15 30,10 20))" ->
           [type |-> "Polygon", coordinates |-> <<Ring>>]
      [] wktData = "POLYGON EMPTY" -> [type |-> "Polygon", coordinates |-> <<>>]
      [] wktData = "MULTILINESTRING((10 20,10 30))" ->
           [type |-> "MultiLineString", coordinates |-> <<<<<<10, 20>>, <<10, 30>>>>>>]
      [] wktData = "POINT(10 20)" -> [type |-> "Point", coordinates |-> <<10, 20>>]
      [] OTHER -> Null

proj4(position) == <<<<"lon", position[1], position[2]>>, <<"lat", position[1], position[2]>>>>

\* coordinates.map(position => [lat, lon])
transformCoordinates(coordinates) ==
    [k \in DOMAIN coordinates |-> <<proj4(coordinates[k])[2], proj4(coordinates[k])[1]>>]

\* A parser that takes the first member of any geometry's coordinates.
parseWKTGeometryAnyType(wktData) ==
    LET geometry == parse(wktData)
    IN  IF geometry # Null /\ geometry.type \in {"Polygon", "MultiLineString"}
           /\ Len(geometry.coordinates) >= 1
        THEN [value |-> transformCoordinates(geometry.coordinates[1])]
        ELSE Null

\* Returns null, or the coordinate array as [value |-> array].
parseWKTGeometry(wktData) ==
    LET geometry == parse(wktData)
    IN  IF geometry # Null /\ geometry.type = "Polygon" /\ Len(geometry.coordinates) >= 1
        THEN [value |-> transformCoordinates(geometry.coordinates[1])]
        ELSE Null

Responses ==
    {[ok |-> status = 200, status |-> status, text |-> text] :
        status \in {200, 404, 500, 503}, text \in WktTexts \cup {"rejects"}}

LandIdentifiers == {"141201_1.0001.1867/2", "141201_1.0001.1868", "226301_1.0001.12", "unknown"}

FetchInit ==
    /\ call \in LandIdentifiers
    /\ proc = [pc |-> "awaitFetch", response |-> Null]
    /\ promise = PendingPromise
    /\ ret = Null
    /\ log = <<>>
    /\ thrown = <<>>
    /\ img = Null
    /\ config = Null
    /\ canvas = Null
    /\ dom = [event |-> "none", ctx |-> "none"]
    /\ settles = [resolve |-> 0, reject |-> 0]

\* The catch block: console.error and return null.
FetchCaught(error) ==
    /\ thrown' = Append(thrown, error)
    /\ log' = Append(log, "Error fetching land data:")
    /\ promise' = Resolved(Null)
    /\ settles' = Settle(settles, Resolved(Null))

\* await fetch(...) rejects.
FetchRejects ==
    /\ proc.pc = "awaitFetch"
    /\ FetchCaught("fetch")
    /\ proc' = [proc EXCEPT !.pc = "done"]
    /\ UNCHANGED <<img, config, canvas, dom, call, ret>>

\* await fetch(...) resolves with a response: not ok throws into the catch
\* block, ok goes on to await response.text().
FetchResolves ==
    /\ proc.pc = "awaitFetch"
    /\ \E response \in Responses :
         IF ~response.ok
         THEN /\ FetchCaught("HTTP error")
              /\ proc' = [pc |-> "done", response |-> response]
         ELSE /\ proc' = [pc |-> "awaitText", response |-> response]
              /\ UNCHANGED <<promise, log, thrown, settles>>
    /\ UNCHANGED <<img, config, canvas, dom, call, ret>>

\* await response.text() rejects.
TextRejects ==
    /\ proc.pc = "awaitText"
    /\ proc.response.text = "rejects"
    /\ FetchCaught("text")
    /\ proc' = [proc EXCEPT !.pc = "done"]
    /\ UNCHANGED <<img, config, canvas, dom, call, ret>>

\* await response.text() resolves: return parseWKTGeometry(wktData).
TextResolves ==
    /\ proc.pc = "awaitText"
    /\ proc.response.text # "rejects"
    /\ promise' = Resolved(parseWKTGeometry(proc.response.text))
    /\ settles' = Settle(settles, Resolved(parseWKTGeometry(proc.response.text)))
    /\ proc' = [proc EXCEPT !.pc = "done"]
    /\ UNCHANGED <<img, config, canvas, log, thrown, dom, call, ret>>

FetchNext == FetchRejects \/ FetchResolves \/ TextRejects \/ TextResolves

SpecFetch == FetchInit /\ [][FetchNext]_vars

\* The text is a polygon with an exterior ring.
PolygonWithRing(text) == text = "POLYGON((10 20,10 30,15 30,10 20))"

\* C13: fetchLandData never rejects; it resolves to null when the request
\* throws, when the response is not ok and when the text does not parse to a
\* Polygon with an exterior ring, and only otherwise to the transformed
\* coordinates of that ring.
C13_FetchNeverRejects ==
    /\ promise.state # "rejected"
    /\ settles.reject = 0
    /\ proc.pc = "done" =>
         /\ promise.state = "resolved"
         /\ settles.resolve = 1
         /\ IF /\ thrown = <<>>
               /\ proc.response # Null /\ proc.response.ok
               /\ PolygonWithRing(proc.response.text)
            THEN promise.value =
                   [value |-> <<<<<<"lat", 10, 20>>, <<"lon", 10, 20>>>>,
                                <<<<"lat", 10, 30>>, <<"lon", 10, 30>>>>,
                                <<<<"lat", 15, 30>>, <<"lon", 15, 30>>>>,
                                <<<<"lat", 10, 20>>, <<"lon", 10, 20>>>>>>]
            ELSE promise.value = Null

C13_Witness ==
    /\ proc.pc = "done"
    /\ thrown = <<>>
    /\ proc.response.ok
    /\ proc.response.text = "MULTILINESTRING((10 20,10 30))"
    /\ promise = Resolved(Null)

(***************************************************************************)
(* applyCannyEdgeDetection on small grayscale buffers: a dark buffer or a  *)
(* faint or bright half-plane (a step edge of either polarity), with one further    *)
(* pixel set to a faint or a bright value.  The state keeps the gradient   *)
(* and the suppressed buffer next to the returned edge buffer.             *)
(***************************************************************************)
CannyWidth == 6
CannyHeight == 6

\* A faint and a bright gray level.
GrayLevels == {40, 255}

\* The base buffers: dark, or bright on one side of the middle.
HalfPlane(side, x, y, width, height) ==
    CASE side = "left" -> x < width \div 2
      [] side = "right" -> x >= width \div 2
      [] side = "top" -> y < height \div 2
      [] side = "bottom" -> y >= height \div 2
      [] OTHER -> FALSE

GrayBuffer(side, level, spot, width, height) ==
    [width |-> width, height |-> height,
     data |-> [i \in 0..(width * height - 1) |->
                 IF spot.at = i THEN spot.value
                 ELSE IF HalfPlane(side, i % width, i \div width, width, height)
                      THEN level ELSE 0]]

Spots(width, height) ==
    {[at |-> -1, value |-> 0]}
      \cup {[at |-> i, value |-> v] : i \in 0..(width * height - 1), v \in GrayLevels}

GrayBuffers ==
    {GrayBuffer(side, level, spot, CannyWidth, CannyHeight) :
        side \in {"none", "left", "right", "top", "bottom"},
        level \in GrayLevels,
        spot \in Spots(CannyWidth, CannyHeight)}

CannyThresholds ==
    {[lowThreshold |-> 60, highThreshold |-> 140],
     [lowThreshold |-> 150, highThreshold |-> 400]}

CannyInit ==
    /\ img \in GrayBuffers
    /\ config \in CannyThresholds
    /\ ret = Null
    /\ call = "idle"
    /\ promise = Null
    /\ canvas = Null
    /\ log = <<>>
    /\ thrown = <<>>
    /\ dom = Null
    /\ proc = Null
    /\ settles = Null

Canny ==
    /\ call = "idle"
    /\ call' = "applyCannyEdgeDetection"
    /\ ret' = [grad |-> Gradient(img.data, img.width, img.height),
               suppressed |-> NonMaxSuppression(Gradient(img.data, img.width, img.height),
                                 img.width, img.height,
                                 config.lowThreshold, config.highThreshold),
               edge |-> applyCannyEdgeDetection(img.data, img.width, img.height,
                                 config.lowThreshold, config.highThreshold)]
    /\ UNCHANGED <<img, config, promise, canvas, log, thrown, dom, proc, settles>>

CannyNext == Canny

SpecCanny == CannyInit /\ [][CannyNext]_vars

CannyDone == call = "applyCannyEdgeDetection"

Pixels == 0..(img.width * img.height - 1)

Adjacent8(i, j, width) ==
    /\ i # j
    /\ Abs((i % width) - (j % width)) <= 1
    /\ Abs((i \div width) - (j \div width)) <= 1

\* The pixels joined to a pixel of set by an 8-connected path inside weak.
RECURSIVE Joined(_, _, _)
Joined(set, weak, width) ==
    LET more == set \cup {w \in weak : \E s \in set : Adjacent8(s, w, width)}
    IN  IF more = set THEN set ELSE Joined(more, weak, width)

StrongPixels == {i \in Pixels : ret.suppressed[i] = 255}
WeakPixels == {i \in Pixels : ret.suppressed[i] = 128}

\* C14: in the returned mask every pixel is 0 or 255, and a pixel is 255
\* exactly when it is strong after non-maximum suppression, or weak and joined
\* to a strong pixel by an 8-connected path of weak pixels.
C14_HysteresisIsWeakReachability ==
    CannyDone =>
        /\ DOMAIN ret.edge = Pixels
        /\ \A i \in Pixels :
             ret.edge[i] = IF i \in Joined(StrongPixels, WeakPixels, img.width)
                           THEN 255 ELSE 0

\* A weak pixel two steps from every strong pixel is promoted, another weak
\* pixel is dropped.
C14_Witness ==
    /\ CannyDone
    /\ \E i \in WeakPixels :
         /\ ret.edge[i] = 255
         /\ \A s \in StrongPixels : ~Adjacent8(s, i, img.width)
    /\ \E i \in WeakPixels : ret.edge[i] = 0

\* The two pixels beside index along a direction branch, by their coordinates.
Beside(bin, index, width) ==
    LET x == index % width
        y == index \div width
        at(px, py) == py * width + px
    IN  CASE bin = "horizontal" -> {at(x - 1, y), at(x + 1, y)}
          [] bin = "diagonal" -> {at(x - 1, y - 1), at(x + 1, y + 1)}
          [] bin = "vertical" -> {at(x, y - 1), at(x, y + 1)}
          [] OTHER -> {at(x + 1, y - 1), at(x - 1, y + 1)}

InteriorPixels ==
    {i \in Pixels : Interior(i % img.width, i \div img.width, img.width, img.height)}

\* C15: non-maximum suppression keeps an interior pixel exactly when its
\* magnitude is greater than or equal to the magnitudes of both neighbours
\* along the direction branch the code takes: a tie is kept, a pixel strictly
\* smaller than either neighbour becomes 0.  A kept pixel holds its class
\* (255, 128, or 0 below the low threshold).
C15_TiesAreKept ==
    CannyDone =>
        \A i \in InteriorPixels :
            LET magnitude == MagnitudeSq(ret.grad[i])
                beside == Beside(DirectionBin(ret.grad[i].gx, ret.grad[i].gy), i, img.width)
            IN  /\ (\E n \in beside : magnitude < MagnitudeSq(ret.grad[n]))
                     => ret.suppressed[i] = 0
                /\ (\A n \in beside : magnitude >= MagnitudeSq(ret.grad[n]))
                     => ret.suppressed[i] =
                          Classify(magnitude, config.lowThreshold, config.highThreshold)
                /\ (Classify(magnitude, config.lowThreshold, config.highThreshold) # 0
                     => (ret.suppressed[i] # 0
                           <=> \A n \in beside : magnitude >= MagnitudeSq(ret.grad[n])))

\* A pixel that ties with one neighbour and exceeds the other is kept as an
\* edge pixel, and a pixel below a neighbour is suppressed.
C15_Witness ==
    /\ CannyDone
    /\ \E i \in InteriorPixels :
         LET magnitude == MagnitudeSq(ret.grad[i])
             beside == Beside(DirectionBin(ret.grad[i].gx, ret.grad[i].gy), i, img.width)
         IN  /\ \E n \in beside : magnitude = MagnitudeSq(ret.grad[n])
             /\ \A n \in beside : magnitude >= MagnitudeSq(ret.grad[n])
             /\ ret.suppressed[i] = 255
    /\ \E i \in InteriorPixels :
         LET magnitude == MagnitudeSq(ret.grad[i])
             beside == Beside(DirectionBin(ret.grad[i].gx, ret.grad[i].gy), i, img.width)
         IN  /\ \E n \in beside : magnitude < MagnitudeSq(ret.grad[n])
             /\ Classify(magnitude, config.lowThreshold, config.highThreshold) # 0
             /\ ret.suppressed[i] = 0

\* The direction branch of a gradient taken modulo 180 degrees: (gx, gy) and
\* (-gx, -gy) fall in the same bin, and the bins are 45 degrees wide.
BinModulo180(gx, gy) ==
    LET fx == IF gy < 0 \/ (gy = 0 /\ gx < 0) THEN -gx ELSE gx
        fy == IF gy < 0 THEN -gy ELSE gy
    IN  IF fx < 0 /\ DirectionBin(-fx, fy) = "horizontal" THEN "horizontal"
        ELSE DirectionBin(fx, fy)

\* suppressedData as it would be with neighbour pairs chosen modulo 180 degrees.
SuppressedModulo180 ==
    [index \in Pixels |->
        LET magnitude == MagnitudeSq(ret.grad[index])
            beside == Beside(BinModulo180(ret.grad[index].gx, ret.grad[index].gy),
                             index, img.width)
        IN  IF index \in InteriorPixels
               /\ \A n \in beside : magnitude >= MagnitudeSq(ret.grad[n])
            THEN Classify(magnitude, config.lowThreshold, config.highThreshold)
            ELSE 0]

\* C16 (as claimed): the neighbour pair is chosen from the direction taken
\* modulo 180 degrees, so opposite gradients select the same pair: a purely
\* horizontal gradient of either sign is compared with the left and right
\* neighbours, a purely vertical one with the upper and lower neighbours, and
\* the suppressed buffer is the one these pairs give.
C16_DirectionModulo180 ==
    CannyDone =>
        /\ \A i \in InteriorPixels :
             DirectionBin(ret.grad[i].gx, ret.grad[i].gy)
               = DirectionBin(-ret.grad[i].gx, -ret.grad[i].gy)
        /\ ret.suppressed = SuppressedModulo180

(***************************************************************************)
(* applyGaussianBlur on small grayscale buffers: grayData is the buffer    *)
(* the caller holds, ret the buffer returned.                              *)
(***************************************************************************)
BlurWidth == 5
BlurHeight == 4

BlurLevels == {3, 255}

BlurSpots ==
    {[at |-> -1, value |-> 0]}
      \cup {[at |-> i, value |-> v] : i \in 0..(BlurWidth * BlurHeight - 1), v \in {2, 200}}

BlurBuffers ==
    {GrayBuffer(side, level, spot, BlurWidth, BlurHeight) :
        side \in {"none", "left", "right", "top", "bottom"},
        level \in BlurLevels,
        spot \in BlurSpots}

BlurInit ==
    /\ img \in BlurBuffers
    /\ call = [name |-> "idle", grayData |-> img.data]
    /\ ret = Null
    /\ config = Null
    /\ promise = Null
    /\ canvas = Null
    /\ log = <<>>
    /\ thrown = <<>>
    /\ dom = Null
    /\ proc = Null
    /\ settles = Null

\* The code reads grayData and writes only the new blurredData.
Blur ==
    /\ call.name = "idle"
    /\ call' = [call EXCEPT !.name = "applyGaussianBlur"]
    /\ ret' = applyGaussianBlur(img.data, img.width, img.height)
    /\ UNCHANGED <<img, config, promise, canvas, log, thrown, dom, proc, settles>>

BlurNext == Blur

SpecBlur == BlurInit /\ [][BlurNext]_vars

BlurDone == call.name = "applyGaussianBlur"

\* The weighted 3x3 sum around (x, y), by coordinates.
WeightedSum(data, width, x, y) ==
    LET p(px, py) == data[py * width + px]
    IN      p(x - 1, y - 1) + 2 * p(x, y - 1) +     p(x + 1, y - 1)
      + 2 * p(x - 1, y)     + 4 * p(x, y)     + 2 * p(x + 1, y)
      +     p(x - 1, y + 1) + 2 * p(x, y + 1) +     p(x + 1, y + 1)

\* v is q rounded to the nearest integer, halves upwards, for q = n / d.
IsRounded(v, n, d) == 2 * d * v <= 2 * n + d /\ 2 * n + d < 2 * d * (v + 1)

OnBorder(x, y, width, height) ==
    x = 0 \/ y = 0 \/ x = width - 1 \/ y = height - 1

\* C17: applyGaussianBlur returns a buffer of the same size whose one-pixel
\* border is 0 and whose interior pixels are the weighted 3x3 sum of the input
\* divided by 16 and rounded; the input buffer is not modified.
C17_BlurBorderZeroInteriorRounded ==
    BlurDone =>
        /\ DOMAIN ret = 0..(img.width * img.height - 1)
        /\ img.data = call.grayData
        /\ \A i \in DOMAIN ret :
             LET x == i % img.width
                 y == i \div img.width
             IN  IF OnBorder(x, y, img.width, img.height)
                 THEN ret[i] = 0
                 ELSE IsRounded(ret[i], WeightedSum(img.data, img.width, x, y), 16)

\* A bright border pixel is blurred to 0, and an interior quotient ending in
\* one half is rounded up.
C17_Witness ==
    /\ BlurDone
    /\ \E i \in DOMAIN ret :
         /\ OnBorder(i % img.width, i \div img.width, img.width, img.height)
         /\ img.data[i] = 255
         /\ ret[i] = 0
    /\ \E i \in DOMAIN ret :
         /\ ~OnBorder(i % img.width, i \div img.width, img.width, img.height)
         /\ WeightedSum(img.data, img.width, i % img.width, i \div img.width) % 16 = 8
         /\ ret[i] > 0

(***************************************************************************)
(* findContours on small masks of any shape, border pixels included: an    *)
(* upper run of set pixels filling rows 0 and 1 from the top, a lower run  *)
(* filling rows 4 and 3 from the bottom, and one further pixel flipped.    *)
(***************************************************************************)
ContourWidth == 6

ContourHeight == 5

\* The lengths of a run: empty, or around the minimum contour length.
RunLengths == {0, 9, 10, 11, 12}

RunMask(upper, lower, flip, width, height) ==
    [i \in 0..(width * height - 1) |->
        LET set == \/ i < upper /\ i < 2 * width
                   \/ i >= 4 * width /\ i < 5 * width /\ i - 4 * width < lower
                   \/ i >= 3 * width /\ i < 4 * width /\ i - 2 * width < lower
        IN  IF (i = flip) # set THEN 255 ELSE 0]

RunMasks ==
    {RunMask(upper, lower, flip, ContourWidth, ContourHeight) :
        upper \in RunLengths, lower \in RunLengths,
        flip \in -1..(ContourWidth * ContourHeight - 1)}

ContoursInit ==
    /\ img = [width |-> ContourWidth, height |-> ContourHeight]
    /\ call \in {[name |-> "idle", edgeData |-> m] : m \in RunMasks}
    /\ ret = Null
    /\ config = Null
    /\ promise = Null
    /\ canvas = Null
    /\ log = <<>>
    /\ thrown = <<>>
    /\ dom = Null
    /\ proc = Null
    /\ settles = Null

\* findContours returns contours; visited and traced are what the scan leaves.
FindContours ==
    /\ call.name = "idle"
    /\ call' = [call EXCEPT !.name = "findContours"]
    /\ ret' = ScanContours(call.edgeData, img.width, img.height)
    /\ UNCHANGED <<img, config, promise, canvas, log, thrown, dom, proc, settles>>

ContoursNext == FindContours

SpecContours == ContoursInit /\ [][ContoursNext]_vars

ContoursDone == call.name = "findContours"

IndexOf(point) == point.y * img.width + point.x

\* The places <<k, a>> of the members of a list of contours.
Places(contours) ==
    UNION {{<<k, a>> : a \in DOMAIN contours[k]} : k \in DOMAIN contours}

SetPixels == {i \in DOMAIN call.edgeData : call.edgeData[i] = 255}

\* The indices of the pixels of one contour.
Members(contour) == {IndexOf(contour[a]) : a \in DOMAIN contour}

\* C18: the contours findContours returns are pairwise disjoint, and no
\* coordinate appears twice within one contour.
C18_ContoursDisjoint ==
    ContoursDone =>
        \A p \in Places(ret.contours), q \in Places(ret.contours) :
            p # q => ret.contours[p[1]][p[2]] # ret.contours[q[1]][q[2]]

\* Two contours are returned.
C18_Witness ==
    /\ ContoursDone
    /\ Len(ret.contours) = 2
    /\ Members(ret.contours[1]) \cap Members(ret.contours[2]) = {}

\* C19: each contour traceContour traces is a maximal 8-connected component
\* of the mask: the start pixel and every set pixel joined to it through set
\* pixels, and only those; over the whole scan every set pixel is visited
\* and lies at exactly one place of exactly one traced contour.
C19_TracedIsMaximalComponent ==
    ContoursDone =>
        /\ \A k \in DOMAIN ret.traced :
             /\ ret.traced[k] # <<>>
             /\ \A a \in DOMAIN ret.traced[k] :
                  InBounds(ret.traced[k][a].x, ret.traced[k][a].y, img.width, img.height)
             /\ Members(ret.traced[k])
                  = Joined({IndexOf(ret.traced[k][1])}, SetPixels, img.width)
        /\ \A i \in DOMAIN call.edgeData :
             /\ ret.visited[i] = (IF i \in SetPixels THEN 1 ELSE 0)
             /\ Cardinality({p \in Places(ret.traced) :
                               IndexOf(ret.traced[p[1]][p[2]]) = i})
                  = (IF i \in SetPixels THEN 1 ELSE 0)

\* Several components are traced, one of them with a pixel joined to it by
\* diagonal steps only and one reaching the border of the mask.
C19_Witness ==
    /\ ContoursDone
    /\ Len(ret.traced) >= 2
    /\ \E k \in DOMAIN ret.traced :
         /\ Len(ret.traced[k]) >= 2
         /\ \E i \in Members(ret.traced[k]) :
              \A j \in Members(ret.traced[k]) \ {i} :
                  Adjacent8(i, j, img.width)
                    => (i % img.width # j % img.width
                          /\ i \div img.width # j \div img.width)
    /\ \E k \in DOMAIN ret.traced :
         \E i \in Members(ret.traced[k]) : i % img.width = 0 \/ i \div img.width = 0

\* A traced contour is among the contours returned.
Returned(contour) == \E k \in DOMAIN ret.contours : ret.contours[k] = contour

\* C20 (as claimed): findContours discards exactly the components with fewer
\* than 10 pixels: a component is returned if and only if it has at least 10.
C20_ReturnedIffAtLeastTen ==
    ContoursDone =>
        \A k \in DOMAIN ret.traced :
            Returned(ret.traced[k]) <=> Len(ret.traced[k]) >= 10

\* C20 (amended): a component is returned if and only if it has more than 10
\* pixels, that is at least 11; a component of exactly 10 pixels is discarded.
\* Every contour returned is a traced component.
C20_ReturnedIffMoreThanTen ==
    ContoursDone =>
        /\ \A k \in DOMAIN ret.traced :
             Returned(ret.traced[k]) <=> Len(ret.traced[k]) >= 11
        /\ \A k \in DOMAIN ret.contours :
             \E j \in DOMAIN ret.traced : ret.traced[j] = ret.contours[k]

\* A component of 10 pixels is discarded and one of 11 is returned.
C20_Witness ==
    /\ ContoursDone
    /\ \E k \in DOMAIN ret.traced : Len(ret.traced[k]) = 10 /\ ~Returned(ret.traced[k])
    /\ \E k \in DOMAIN ret.traced : Len(ret.traced[k]) = 11 /\ Returned(ret.traced[k])

(***************************************************************************)
(* findBestRectangle on lists of contours.  findContours passes it only    *)
(* contours of more than MinContourLength points; the contours here are    *)
(* paths of pixels: a hook runs right along the top of its box and down    *)
(* its right side, a loop goes on along the bottom and up the left side    *)
(* to end below its start.                                                 *)
(***************************************************************************)
Hook(x, y, w, h) ==
    [k \in 1..(w + h + 1) |->
        IF k <= w + 1 THEN [x |-> x + k - 1, y |-> y]
        ELSE [x |-> x + w, y |-> y + k - w - 1]]

Loop(x, y, w, h) ==
    Hook(x, y, w, h)
      \o [k \in 1..w |-> [x |-> x + w - k, y |-> y + h]]
      \o [k \in 1..(h - 1) |-> [x |-> x, y |-> y + h - k]]

BoxSizes == {<<6, 4>>, <<4, 6>>, <<8, 8>>, <<9, 5>>}

Shapes ==
    {Hook(x, 2, b[1], b[2]) : x \in 1..2, b \in BoxSizes}
      \cup {Loop(x, 2, b[1], b[2]) : x \in 1..2, b \in BoxSizes}

\* No contour, one, or two.
ContourLists == {<<>>} \cup {<<a>> : a \in Shapes} \cup {<<a, b>> : a \in Shapes, b \in Shapes}

BestSizes ==
    {[width |-> 12, height |-> 12], [width |-> 30, height |-> 26],
     [width |-> 25, height |-> 25]}

BestInit ==
    /\ call \in {[name |-> "idle", contours |-> cs, width |-> size.width,
                  height |-> size.height, minAreaPercent |-> percent] :
                    cs \in ContourLists, size \in BestSizes, percent \in {5, 20}}
    /\ ret = Null
    /\ img = Null
    /\ config = Null
    /\ promise = Null
    /\ canvas = Null
    /\ log = <<>>
    /\ thrown = <<>>
    /\ dom = Null
    /\ proc = Null
    /\ settles = Null

FindBest ==
    /\ call.name = "idle"
    /\ call' = [call EXCEPT !.name = "findBestRectangle"]
    /\ ret' = findBestRectangle(call.contours, call.width, call.height, call.minAreaPercent)
    /\ UNCHANGED <<img, config, promise, canvas, log, thrown, dom, proc, settles>>

BestNext == FindBest

SpecBest == BestInit /\ [][BestNext]_vars

BestDone == call.name = "findBestRectangle"

BoundsArea(contour) == getBoundingRect(contour).width * getBoundingRect(contour).height

\* The contours that pass the area check and the border check.
Survivors ==
    {k \in DOMAIN call.contours :
        /\ ~BelowMinArea(BoundsArea(call.contours[k]), call.width * call.height,
                         call.minAreaPercent)
        /\ ~HugsBorder(getBoundingRect(call.contours[k]), call.width, call.height,
                       BorderPad(call.width, call.height))}

ScoreOf(k) ==
    Score(BoundsArea(call.contours[k]), calculateMinAreaRect(call.contours[k]).angle)

\* C21: findBestRectangle returns null exactly when no contour survives the
\* area and border checks; otherwise it returns the rectangle of the
\* survivor of maximum score, the first in contour order among those of
\* equal maximum score.
C21_FirstOfMaximumScore ==
    BestDone =>
        IF Survivors = {} THEN ret = Null
        ELSE \E k \in Survivors :
                /\ ret = calculateMinAreaRect(call.contours[k])
                /\ \A j \in Survivors :
                      /\ ~FlLess(ScoreOf(k), ScoreOf(j))
                      /\ ScoreOf(j) = ScoreOf(k) => k <= j

\* Two survivors of equal score and different rectangles: the first is returned.
C21_Witness ==
    /\ BestDone
    /\ Survivors = {1, 2}
    /\ ScoreOf(1) = ScoreOf(2)
    /\ calculateMinAreaRect(call.contours[1]) # calculateMinAreaRect(call.contours[2])
    /\ ret = calculateMinAreaRect(call.contours[1])

\* C22: every rectangle findBestRectangle returns for a W x H image has
\* width x height >= W x H x minAreaPercent / 100 and lies strictly inside the
\* border pad p = round(0.02 x min(W, H)); it is the box of a contour that
\* meets both conditions, so a contour violating either is never selected.
C22_ReturnedInsidePadAndLargeEnough ==
    BestDone /\ ret # Null =>
        \E p \in 0..Min(call.width, call.height) :
            /\ IsRounded(p, 2 * Min(call.width, call.height), 100)
            /\ ret.width * ret.height * 100 >= call.width * call.height * call.minAreaPercent
            /\ ret.x > p
            /\ ret.y > p
            /\ ret.x + ret.width < call.width - p
            /\ ret.y + ret.height < call.height - p
            /\ \E k \in DOMAIN call.contours :
                  /\ ret.x = getBoundingRect(call.contours[k]).x
                  /\ ret.y = getBoundingRect(call.contours[k]).y
                  /\ ret.width = getBoundingRect(call.contours[k]).width
                  /\ ret.height = getBoundingRect(call.contours[k]).height

\* With a pad of 1 the first contour touches the pad and has the larger box,
\* and the second contour is returned.
C22_Witness ==
    /\ BestDone
    /\ ret # Null
    /\ Len(call.contours) = 2
    /\ Min(call.width, call.height) = 25
    /\ getBoundingRect(call.contours[1]).x = 1
    /\ BoundsArea(call.contours[1]) > BoundsArea(call.contours[2])
    /\ ret = calculateMinAreaRect(call.contours[2])

(***************************************************************************)
(* cropWithPerspectiveTransform on the rectangles findBestRectangle can    *)
(* return for a canvas (inside the border pad), with inset margins of      *)
(* either sign.  ret holds cropX, cropY, cropWidth, cropHeight in quarter  *)
(* pixels.                                                                 *)
(***************************************************************************)
CropRects(theCanvas) ==
    {r \in {[x |-> x, y |-> y, width |-> b[1], height |-> b[2], angle |-> FlZero] :
              x \in 1..4, y \in 1..4, b \in BoxSizes \cup {<<2, 10>>, <<1, 1>>}} :
        ~HugsBorder(r, theCanvas.width, theCanvas.height,
                    BorderPad(theCanvas.width, theCanvas.height))}

InsetMargins == {-3, 0, 1, 2, 10}

CropInit ==
    /\ canvas \in BestSizes
    /\ call \in {[name |-> "idle", rect |-> r, insetMargin |-> m] :
                    r \in CropRects(canvas), m \in InsetMargins}
    /\ ret = Null
    /\ img = Null
    /\ config = Null
    /\ promise = Null
    /\ log = <<>>
    /\ thrown = <<>>
    /\ dom = Null
    /\ proc = Null
    /\ settles = Null

Crop ==
    /\ call.name = "idle"
    /\ call' = [call EXCEPT !.name = "cropWithPerspectiveTransform"]
    /\ ret' = cropWithPerspectiveTransform(canvas, call.rect, call.insetMargin)
    /\ UNCHANGED <<img, config, promise, canvas, log, thrown, dom, proc, settles>>

CropNext == Crop

SpecCrop == CropInit /\ [][CropNext]_vars

CropDone == call.name = "cropWithPerspectiveTransform"

\* Four times min(insetMargin, side / 4).
QuarterInset(insetMargin, side) == IF 4 * insetMargin <= side THEN 4 * insetMargin ELSE side

\* C23: the crop region lies inside the canvas: cropX >= 0, cropY >= 0,
\* cropX + cropWidth <= canvas.width, cropY + cropHeight <= canvas.height; the
\* inset on each axis is min(insetMargin, a quarter of the rectangle's size):
\* the origin is the rectangle's origin moved in by the inset, and the size is
\* the rectangle's size less twice the inset unless the canvas is smaller.
C23_CropInsideCanvas ==
    CropDone =>
        /\ ret.cropX >= 0
        /\ ret.cropY >= 0
        /\ ret.cropX + ret.cropWidth <= 4 * canvas.width
        /\ ret.cropY + ret.cropHeight <= 4 * canvas.height
        /\ 4 * call.rect.x + QuarterInset(call.insetMargin, call.rect.width) >= 0
             => ret.cropX = 4 * call.rect.x + QuarterInset(call.insetMargin, call.rect.width)
        /\ 4 * call.rect.y + QuarterInset(call.insetMargin, call.rect.height) >= 0
             => ret.cropY = 4 * call.rect.y + QuarterInset(call.insetMargin, call.rect.height)
        /\ ret.cropWidth
             <= 4 * call.rect.width - 2 * QuarterInset(call.insetMargin, call.rect.width)
        /\ ret.cropHeight
             <= 4 * call.rect.height - 2 * QuarterInset(call.insetMargin, call.rect.height)
        /\ \/ ret.cropWidth
                = 4 * call.rect.width - 2 * QuarterInset(call.insetMargin, call.rect.width)
           \/ ret.cropX + ret.cropWidth = 4 * canvas.width
        /\ \/ ret.cropHeight
                = 4 * call.rect.height - 2 * QuarterInset(call.insetMargin, call.rect.height)
           \/ ret.cropY + ret.cropHeight = 4 * canvas.height

\* A negative margin widens the crop until it is cut at the canvas's right
\* edge, while the inset on the other axis is the margin itself.
C23_Witness ==
    /\ CropDone
    /\ call.insetMargin < 0
    /\ ret.cropX + ret.cropWidth = 4 * canvas.width
    /\ ret.cropWidth
         < 4 * call.rect.width - 2 * QuarterInset(call.insetMargin, call.rect.width)
    /\ ret.cropY = 4 * call.rect.y + 4 * call.insetMargin

(***************************************************************************)
(* The two while loops over an explicit stack, one iteration per step:     *)
(* traceWeakEdges as the hysteresis loop calls it (the start pixel strong  *)
(* and marked, the border of suppressedData 0) and traceContour as         *)
(* findContours calls it first (no pixel visited, the start pixel the      *)
(* first set pixel of the scan).  log counts the pushes of every pixel, a  *)
(* history the code does not keep.                                         *)
(***************************************************************************)
FillWidth == 5
FillHeight == 4

FillPixels == 0..(FillWidth * FillHeight - 1)

\* One, two or three pixels set.
FillSets == {{a, b, c} : a, b, c \in FillPixels}

PointOf(i, width) == [x |-> i % width, y |-> i \div width]

WeakCalls ==
    UNION {{[name |-> "traceWeakEdges", width |-> FillWidth, height |-> FillHeight,
             data |-> [i \in FillPixels |->
                         IF i = start THEN 255 ELSE IF i \in t THEN 128 ELSE 0],
             start |-> PointOf(start, FillWidth)] : start \in t} :
           t \in {u \in FillSets :
                    \A i \in u : Interior(i % FillWidth, i \div FillWidth,
                                          FillWidth, FillHeight)}}

ContourCalls ==
    {[name |-> "traceContour", width |-> FillWidth, height |-> FillHeight,
      data |-> [i \in FillPixels |-> IF i \in t THEN 255 ELSE 0],
      start |-> PointOf(SetMin(t), FillWidth)] : t \in FillSets}

\* The loop state on entry: traceWeakEdges gets edgeData with the start pixel
\* already 255, traceContour a visited buffer of zeros.
FillEntry(theCall) ==
    IF theCall.name = "traceWeakEdges"
    THEN [edge |-> [i \in DOMAIN theCall.data |->
                      IF i = theCall.start.y * theCall.width + theCall.start.x
                      THEN 255 ELSE 0],
          stack |-> <<theCall.start>>]
    ELSE [visited |-> [i \in DOMAIN theCall.data |-> 0], contour |-> <<>>,
          stack |-> <<theCall.start>>]

\* The push counts after a step from stack before to stack after: the step
\* pops one element and pushes the rest of what is new.
Pushed(counts, before, after, width) ==
    [i \in DOMAIN counts |->
        counts[i] + Cardinality({k \in Len(before)..Len(after) :
                                   after[k].y * width + after[k].x = i})]

FillInit ==
    /\ call \in WeakCalls \cup ContourCalls
    /\ proc = FillEntry(call)
    /\ log = [i \in DOMAIN call.data |->
                IF i = call.start.y * call.width + call.start.x THEN 1 ELSE 0]
    /\ ret = Null
    /\ img = Null
    /\ config = Null
    /\ promise = Null
    /\ canvas = Null
    /\ thrown = <<>>
    /\ dom = Null
    /\ settles = Null

\* One iteration of the while loop of traceWeakEdges.
WeakStep ==
    /\ call.name = "traceWeakEdges"
    /\ proc.stack # <<>>
    /\ proc' = TraceWeakStep(call.data, call.width, call.height, proc)
    /\ log' = Pushed(log, proc.stack,
                     TraceWeakStep(call.data, call.width, call.height, proc).stack,
                     call.width)
    /\ UNCHANGED <<img, config, promise, canvas, thrown, dom, settles, call, ret>>

\* One iteration of the while loop of traceContour.
ContourStep ==
    /\ call.name = "traceContour"
    /\ proc.stack # <<>>
    /\ proc' = TraceContourStep(call.data, call.width, call.height, proc)
    /\ log' = Pushed(log, proc.stack,
                     TraceContourStep(call.data, call.width, call.height, proc).stack,
                     call.width)
    /\ UNCHANGED <<img, config, promise, canvas, thrown, dom, settles, call, ret>>

\* The loop ends at the empty stack and the function returns.
FillReturn ==
    /\ proc.stack = <<>>
    /\ ret = Null
    /\ ret' = [value |-> IF call.name = "traceWeakEdges" THEN proc.edge ELSE proc.contour]
    /\ UNCHANGED <<img, config, promise, canvas, log, thrown, dom, proc, settles, call>>

FillNext == WeakStep \/ ContourStep \/ FillReturn

SpecFill == FillInit /\ [][FillNext]_vars

\* The loops run on: a step that can be taken is taken.
SpecFillFair == SpecFill /\ WF_vars(FillNext)

\* Each pixel is pushed at most once by traceWeakEdges and added to the
\* contour at most once by traceContour.
NoPixelTwice ==
    /\ call.name = "traceWeakEdges" => \A i \in DOMAIN log : log[i] <= 1
    /\ call.name = "traceContour" =>
         \A a \in DOMAIN proc.contour, b \in DOMAIN proc.contour :
             a # b => proc.contour[a] # proc.contour[b]

\* C24: both stack-based flood fills terminate on every finite mask:
\* traceWeakEdges pushes each pixel at most once, traceContour adds each pixel
\* to the contour at most once, and the work-list of each empties, after
\* which the function returns.
C24_FloodFillsTerminate == []NoPixelTwice /\ <>(proc.stack = <<>> /\ ret # Null)

\* traceContour has returned a contour of three pixels, one of which was
\* pushed twice.
C24_Witness ==
    /\ call.name = "traceContour"
    /\ ret # Null
    /\ Len(ret.value) = 3
    /\ \E i \in DOMAIN log : log[i] >= 2

\* The sides of the polygon parallel to its longer side: c0-c1 and c2-c3 when
\* c0-c1 is strictly longer than c1-c2, otherwise c1-c2 and c3-c0.
AlongLongerSide(coordinates) ==
    IF SquaredLength(coordinates[1], coordinates[2])
         > SquaredLength(coordinates[2], coordinates[3])
    THEN {{coordinates[1], coordinates[2]}, {coordinates[3], coordinates[4]}}
    ELSE {{coordinates[2], coordinates[3]}, {coordinates[4], coordinates[1]}}

\* The edge of the overlay that carries the image's longer dimension: the top
\* edge for a wider image, otherwise the left edge.
LongerImageEdge(overlay, image) ==
    IF image.width > image.height
    THEN {overlay.topleft, overlay.topright}
    ELSE {overlay.topleft, overlay.bottomleft}

\* C25 (as claimed): whenever the image dimensions are known, the image's
\* longer dimension is laid along the polygon's longer side, in each of the
\* four combinations of polygon and image orientation; when a dimension is
\* unknown the overlay is anchored at the coordinates as given.
C25_LongerDimensionAlongLongerSide ==
    proc.pc = "done" =>
        IF DimensionsUnknown(proc.processed)
        THEN ret = Rotated(proc.processed.imageUrl, call.coordinates[4],
                           call.coordinates[1], call.coordinates[3])
        ELSE LongerImageEdge(ret, proc.processed) \in AlongLongerSide(call.coordinates)

(***************************************************************************)
(* DomAThor (src/components/DomAThor.tsx).  The component's props are in   *)
(* config, its three pieces of hook state in dom, the fetchLandData calls  *)
(* it has made, each pending or completed, in call, and the arguments of   *)
(* its calls of calculateHouseCoordinates in log.  A setter queues an     *)
(* update: setHouseCoordinates in the first effect, setLandCoordinates and *)
(* setCenter after the await of the second.  dom.queued lists the updates  *)
(* React has not rendered yet, and the next render that takes them up      *)
(* applies them all.  A render commits its props and hook state and       *)
(* leaves in dom.effects the effects whose dependencies have changed; they *)
(* run in a later step, before the component renders again, and a fetch    *)
(* continuation may run in between.                                        *)
(***************************************************************************)
MaxFetches == 3
MaxHouseCalls == 2

\* The empty string stands for both values the effect's test !landIdentifier
\* takes for absent: undefined and "".
LandIds == {"", "141201_1.0001.1", "141201_1.0001.2"}

HouseSizes == {[width |-> 0, height |-> 12], [width |-> 25, height |-> 0],
               [width |-> 20, height |-> 12]}

\* What the registry holds for each parcel.
LandOf(landIdentifier) ==
    IF landIdentifier = "141201_1.0001.1"
    THEN <<<<0, 0>>, <<0, 4>>, <<4, 4>>, <<4, 0>>>>
    ELSE <<<<10, 20>>, <<10, 26>>, <<16, 26>>, <<16, 20>>>>

\* useState<Coordinate>([52.2296756, 21.0122287]): the doubles nearest to the
\* two decimals.
DefaultCenter ==
    <<Math("ratio", 522296756, 10000000), Math("ratio", 210122287, 10000000)>>

\* The latitudes, for axis 1, or the longitudes, for axis 2.
Axis(coordinates, axis) == [k \in DOMAIN coordinates |-> coordinates[k][axis]]

\* The sum of the latitudes over their number and the sum of the longitudes
\* over theirs, in doubles: NaN twice for no coordinates.
CenterOf(coordinates) ==
    <<Math("mean", Axis(coordinates, 1), 0), Math("mean", Axis(coordinates, 2), 0)>>

\* The four corners around the centre, in the order south-west, north-west,
\* north-east, south-east.  A corner is the centre and the signed extents it
\* is moved by: height / 2 metres in latitude, width / 2 metres in longitude.
calculateHouseCoordinates(center, width, height) ==
    <<[center |-> center, dlat |-> -height, dlon |-> -width],
      [center |-> center, dlat |-> height, dlon |-> -width],
      [center |-> center, dlat |-> height, dlon |-> width],
      [center |-> center, dlat |-> -height, dlon |-> width]>>

\* The first effect, which runs when width, height or center has changed:
\* setHouseCoordinates queues an update for the next render.
HouseEffect(props, state, calls) ==
    IF props.width = 0 \/ props.height = 0
    THEN [state |-> state, calls |-> calls]
    ELSE [state |-> [state EXCEPT !.queued =
                       Append(@, [hook |-> "houseCoordinates",
                                  houseCoordinates |->
                                      calculateHouseCoordinates(state.center, props.width,
                                                                props.height)])],
          calls |-> Append(calls, <<state.center, props.width, props.height>>)]

\* The second effect, which runs when landIdentifier has changed, up to its
\* await: it calls fetchLandData unless the identifier is empty.
LandEffect(props, fetches) ==
    IF props.landIdentifier = ""
    THEN fetches
    ELSE Append(fetches, [landIdentifier |-> props.landIdentifier,
                          pending |-> TRUE, result |-> Null])

\* The second effect after its await: setLandCoordinates(coordinates) and
\* setCenter of their mean queue an update; null changes nothing.  A response
\* is Null or a record holding the coordinates.
LandLoaded(state, response) ==
    IF response = Null
    THEN state
    ELSE [state EXCEPT !.queued =
            Append(@, [hook |-> "landCoordinates",
                       landCoordinates |-> response.coordinates,
                       center |-> CenterOf(response.coordinates)])]

\* The places of the queue that hold an update of the hook.
QueuedFor(state, hook) == {k \in DOMAIN state.queued : state.queued[k].hook = hook}

\* The update of the hook that was queued last.
LastQueued(state, hook) ==
    state.queued[CHOOSE k \in QueuedFor(state, hook) :
                     \A j \in QueuedFor(state, hook) : j <= k]

\* The hook state of a render that takes up the queued updates: each setter
\* was called with a value, so the last update of a hook gives its state.
Flushed(state) ==
    [state EXCEPT
       !.landCoordinates = IF QueuedFor(state, "landCoordinates") = {}
                           THEN @
                           ELSE LastQueued(state, "landCoordinates").landCoordinates,
       !.center = IF QueuedFor(state, "landCoordinates") = {}
                  THEN @
                  ELSE LastQueued(state, "landCoordinates").center,
       !.houseCoordinates = IF QueuedFor(state, "houseCoordinates") = {}
                            THEN @
                            ELSE LastQueued(state, "houseCoordinates").houseCoordinates,
       !.queued = <<>>]

\* The state a render commits, with the effects it leaves to run.  A centre
\* taken from the queue is a new array, so the first effect is to run when
\* sized says that width or height has changed or when an update of the
\* centre was taken up; the second effect is to run when identified says that
\* landIdentifier has changed.
Rendered(state, sized, identified, flush) ==
    [(IF flush THEN Flushed(state) ELSE state) EXCEPT
       !.effects = (IF sized \/ (flush /\ QueuedFor(state, "landCoordinates") # {})
                    THEN {"houseCoordinates"} ELSE {})
                   \cup (IF identified THEN {"landData"} ELSE {})]

\* The first render: nothing is set, and both effects are to run.
DomInit ==
    /\ config \in {[landIdentifier |-> id, width |-> s.width, height |-> s.height] :
                     id \in LandIds, s \in HouseSizes}
    /\ dom = [landCoordinates |-> <<>>, center |-> DefaultCenter,
              houseCoordinates |-> <<>>, queued |-> <<>>,
              effects |-> {"houseCoordinates", "landData"}]
    /\ call = <<>>
    /\ log = <<>>
    /\ proc = "rendered"
    /\ img = Null /\ promise = Null /\ canvas = Null /\ thrown = Null
    /\ settles = Null /\ ret = Null

\* The effects a render left run, in the order of their declaration, with
\* the props and the hook state of that render.
DomEffects ==
    /\ dom.effects # {}
    /\ proc' = "mounted"
    /\ dom' = [(IF "houseCoordinates" \in dom.effects
                THEN HouseEffect(config, dom, log).state
                ELSE dom) EXCEPT !.effects = {}]
    /\ log' = IF "houseCoordinates" \in dom.effects
              THEN HouseEffect(config, dom, log).calls
              ELSE log
    /\ call' = IF "landData" \in dom.effects THEN LandEffect(config, call) ELSE call
    /\ UNCHANGED <<img, config, promise, canvas, thrown, settles, ret>>

\* After the first render both effects run: the first queues the house
\* coordinates, the second calls fetchLandData.
DomMount == proc = "rendered" /\ DomEffects

\* The effects of a later render run.
DomRerun == proc = "mounted" /\ DomEffects

\* The parent passes another landIdentifier and the component renders, once
\* the effects of the render before have run: the second effect is to run.
\* The render takes up the queued updates or, being of a higher priority than
\* they are, leaves them to a later render.
SetLandIdentifier ==
    /\ proc = "mounted"
    /\ dom.effects = {}
    /\ Len(call) < MaxFetches
    /\ \E id \in LandIds \ {config.landIdentifier}, flush \in BOOLEAN :
         /\ config' = [config EXCEPT !.landIdentifier = id]
         /\ dom' = Rendered(dom, FALSE, TRUE, flush)
    /\ UNCHANGED <<img, promise, canvas, log, thrown, proc, settles, call, ret>>

\* The parent passes another width or height and the component renders: the
\* first effect is to run.
SetSize ==
    /\ proc = "mounted"
    /\ dom.effects = {}
    /\ Len(log) < MaxHouseCalls
    /\ \E s \in HouseSizes, flush \in BOOLEAN :
         /\ <<s.width, s.height>> # <<config.width, config.height>>
         /\ config' = [config EXCEPT !.width = s.width, !.height = s.height]
         /\ dom' = Rendered(dom, TRUE, FALSE, flush)
    /\ UNCHANGED <<img, promise, canvas, log, thrown, proc, settles, call, ret>>

\* A pending fetchLandData call resolves, with the parcel's coordinates or
\* with null, and the effect that awaited it goes on to its end.
FetchCompletes ==
    /\ proc = "mounted"
    /\ \E k \in DOMAIN call, found \in BOOLEAN :
         LET response == IF found
                          THEN [coordinates |-> LandOf(call[k].landIdentifier)]
                          ELSE Null
         IN  /\ call[k].pending
             /\ call' = [call EXCEPT ![k] = [@ EXCEPT !.pending = FALSE,
                                                     !.result = response]]
             /\ dom' = LandLoaded(dom, response)
    /\ UNCHANGED <<img, config, promise, canvas, log, thrown, proc, settles, ret>>

\* React renders the component for the updates queued: all of them are
\* applied in the one render, and the first effect is to run when the centre
\* is among them.
DomRender ==
    /\ proc = "mounted"
    /\ dom.effects = {}
    /\ dom.queued # <<>>
    /\ dom' = Rendered(dom, FALSE, FALSE, TRUE)
    /\ UNCHANGED <<img, config, promise, canvas, log, thrown, proc, settles, call, ret>>

DomNext ==
    DomMount \/ DomRerun \/ SetLandIdentifier \/ SetSize \/ FetchCompletes \/ DomRender

SpecDom == DomInit /\ [][DomNext]_vars

\* C26 (as claimed): while width or height is 0 calculateHouseCoordinates is
\* not called and the house coordinates stay as they are, and while
\* landIdentifier is empty fetchLandData is not called and the land
\* coordinates and the centre stay as they are: no other ones are set, be it
\* in an update that is still queued.
C26_NothingWithoutSizeOrIdentifier ==
    [][((config'.width = 0 \/ config'.height = 0) =>
           (/\ log' = log
            /\ Flushed(dom').houseCoordinates = Flushed(dom).houseCoordinates))
       /\ (config'.landIdentifier = "" =>
           (/\ Len(call') = Len(call)
            /\ Flushed(dom').landCoordinates = Flushed(dom).landCoordinates
            /\ Flushed(dom').center = Flushed(dom).center))]_vars

\* C30 (as claimed): once no fetchLandData call is pending, no update is
\* queued and no effect is left to run, and the call for the landIdentifier
\* set last returned coordinates, the land coordinates and the centre are the
\* ones of that call.
C30_LatestIdentifierWins ==
    (/\ proc = "mounted"
     /\ config.landIdentifier # ""
     /\ call # <<>>
     /\ \A k \in DOMAIN call : ~call[k].pending
     /\ dom.queued = <<>>
     /\ dom.effects = {}
     /\ call[Len(call)].result # Null) =>
        /\ call[Len(call)].landIdentifier = config.landIdentifier
        /\ dom.landCoordinates = call[Len(call)].result.coordinates
        /\ dom.center = CenterOf(dom.landCoordinates)

(***************************************************************************)
(* DraggablePolygon (src/components/DraggablePolygon.tsx).  The props are  *)
(* in config.  proc holds the component and its map: the layers on the     *)
(* map, the refs, the polygon whose removal the second effect's cleanup    *)
(* function will do, and the createRotatedImageOverlay calls made, each    *)
(* pending or completed.  Polygons are numbered as they are created and an *)
(* overlay carries the number of the call that made it; 0 is a ref's null  *)
(* and the absence of a cleanup function.  An absent houseDataUrl is "".   *)
(* A render commits its props and leaves in proc.effects the effects whose *)
(* dependencies have changed; they run in a later step, before the         *)
(* component renders again.  Until then the polygon on the map keeps the   *)
(* handlers of the render that created it: proc.handlers is the            *)
(* houseDataUrl they closed over.                                          *)
(***************************************************************************)
MaxCreates == 3
MaxPolygons == 2

HouseQuads ==
    {<<<<0, 0>>, <<0, 4>>, <<2, 4>>, <<2, 0>>>>,
     <<<<1, 1>>, <<1, 5>>, <<3, 5>>, <<3, 1>>>>,
     <<>>}

PolygonProps ==
    {[coordinates |-> q, houseDataUrl |-> u, mirrorX |-> mx, mirrorY |-> my] :
        q \in HouseQuads, u \in {"", "house"}, mx \in BOOLEAN, my \in BOOLEAN}

PolygonLayer(n) == [kind |-> "polygon", id |-> n]
OverlayLayer(n) == [kind |-> "overlay", id |-> n]

\* if (imageOverlayRef.current) { map.removeLayer(...); imageOverlayRef.current = null }
cleanupImageOverlay(c) ==
    IF c.imageOverlayRef # 0
    THEN [c EXCEPT !.map = @ \ {OverlayLayer(c.imageOverlayRef)},
                   !.imageOverlayRef = 0]
    ELSE c

\* createRotatedImageOverlay is called and its promise is pending.
Create(c, houseDataUrl, polygon, mirrorX, mirrorY) ==
    [c EXCEPT !.calls = Append(@, [houseDataUrl |-> houseDataUrl, polygon |-> polygon,
                                   mirrorX |-> mirrorX, mirrorY |-> mirrorY,
                                   pending |-> TRUE])]

\* The first effect: the mirror flags are copied to their refs.
MirrorEffect(props, c) ==
    [c EXCEPT !.mirrorXRef = props.mirrorX, !.mirrorYRef = props.mirrorY]

\* The function the second effect returned, if it returned one.
PolygonCleanup(c) ==
    IF c.cleanup = 0
    THEN c
    ELSE [cleanupImageOverlay(c) EXCEPT !.map = @ \ {PolygonLayer(c.cleanup)},
                                        !.cleanup = 0,
                                        !.dragging = FALSE]

\* The second effect: it returns before creating a polygon, and without a
\* cleanup function, when there are fewer than three coordinates.  The
\* handlers it registers are those of its render.
PolygonEffect(props, c) ==
    IF Len(props.coordinates) < 3
    THEN cleanupImageOverlay(c)
    ELSE [cleanupImageOverlay(c) EXCEPT !.polygons = @ + 1,
                                        !.polygonRef = c.polygons + 1,
                                        !.map = @ \cup {PolygonLayer(c.polygons + 1)},
                                        !.cleanup = c.polygons + 1,
                                        !.handlers = props.houseDataUrl]

\* The third effect, up to the call of createRotatedImageOverlay.
OverlayEffect(props, c) ==
    IF props.houseDataUrl # "" /\ c.polygonRef # 0
    THEN Create(cleanupImageOverlay(c), props.houseDataUrl, c.polygonRef,
                props.mirrorX, props.mirrorY)
    ELSE c

\* reloadImageOverlay up to its await, with the houseDataUrl of its closure.
reloadImageOverlay(houseDataUrl, c, polygon, mirrorX, mirrorY) ==
    IF houseDataUrl = "" \/ polygon = 0
    THEN cleanupImageOverlay(c)
    ELSE Create(cleanupImageOverlay(c), houseDataUrl, polygon, mirrorX, mirrorY)

\* What follows the await, and the then callback of the third effect:
\* overlay.addTo(map); bringToFront(); imageOverlayRef.current = overlay.
OverlayCreated(c, k) ==
    [c EXCEPT !.map = @ \cup {OverlayLayer(k)},
              !.imageOverlayRef = k,
              !.calls[k].pending = FALSE]

\* The effects a render has to run.  React compares each dependency with the
\* one of the render before by Object.is: a string or a boolean has changed
\* when its value has, the coordinates array has changed when the parent
\* passes another array (fresh), whatever its points.
ChangedEffects(old, new, fresh) ==
    LET first == old.mirrorX # new.mirrorX \/ old.mirrorY # new.mirrorY
        second == fresh \/ old.houseDataUrl # new.houseDataUrl
    IN  (IF first THEN {"mirror"} ELSE {})
        \cup (IF second THEN {"polygon"} ELSE {})
        \cup (IF first \/ second THEN {"overlay"} ELSE {})

\* The effects of a render run: the cleanup function of an effect that runs
\* again is called first, then the effects run in the order of their
\* declaration.
Rerender(props, effects, c) ==
    LET c1 == IF "polygon" \in effects THEN PolygonCleanup(c) ELSE c
        c2 == IF "mirror" \in effects THEN MirrorEffect(props, c1) ELSE c1
        c3 == IF "polygon" \in effects THEN PolygonEffect(props, c2) ELSE c2
        c4 == IF "overlay" \in effects THEN OverlayEffect(props, c3) ELSE c3
    IN  [c4 EXCEPT !.effects = {}]

\* The first render: the refs hold the mirror flags, and the three effects
\* are to run.
PolygonInit ==
    /\ config \in PolygonProps
    /\ proc = [phase |-> "rendered", map |-> {}, imageOverlayRef |-> 0,
               polygonRef |-> 0, mirrorXRef |-> config.mirrorX,
               mirrorYRef |-> config.mirrorY, cleanup |-> 0, polygons |-> 0,
               calls |-> <<>>, dragging |-> FALSE, handlers |-> "",
               effects |-> {"mirror", "polygon", "overlay"}]
    /\ img = Null /\ promise = Null /\ canvas = Null /\ thrown = Null
    /\ settles = Null /\ ret = Null /\ dom = Null /\ call = Null /\ log = Null

\* The effects a render left run, with the props of that render.
PolygonEffects ==
    /\ proc.effects # {}
    /\ proc' = [Rerender(config, proc.effects, proc) EXCEPT !.phase = "mounted"]
    /\ UNCHANGED <<img, config, promise, canvas, log, thrown, dom, settles, call, ret>>

\* After the first render the three effects run.
PolygonMount == proc.phase = "rendered" /\ PolygonEffects

\* The effects of a later render run.
PolygonRerun == proc.phase = "mounted" /\ PolygonEffects

\* The parent renders again, once the effects of the render before have run:
\* with other props, or with the same points in a new array.  An array of
\* other points is another array.
SetProps ==
    /\ proc.phase = "mounted"
    /\ proc.effects = {}
    /\ Len(proc.calls) < MaxCreates
    /\ proc.polygons < MaxPolygons
    /\ \E props \in PolygonProps, fresh \in BOOLEAN :
         /\ props.coordinates # config.coordinates => fresh
         /\ props # config \/ fresh
         /\ config' = props
         /\ proc' = [proc EXCEPT !.effects = ChangedEffects(config, props, fresh)]
    /\ UNCHANGED <<img, promise, canvas, log, thrown, dom, settles, call, ret>>

\* dragstart or rotatestart on the polygon on the map: handleStart.
DragStart ==
    /\ proc.phase = "mounted"
    /\ proc.cleanup # 0
    /\ ~proc.dragging
    /\ proc' = [cleanupImageOverlay(proc) EXCEPT !.dragging = TRUE]
    /\ UNCHANGED <<img, config, promise, canvas, log, thrown, dom, settles, call, ret>>

\* dragend or rotateend: handleEnd, up to the await in reloadImageOverlay.
DragEnd ==
    /\ proc.phase = "mounted"
    /\ proc.dragging
    /\ Len(proc.calls) < MaxCreates
    /\ proc' = [reloadImageOverlay(proc.handlers, proc, proc.polygonRef,
                                   proc.mirrorXRef, proc.mirrorYRef)
                  EXCEPT !.dragging = FALSE]
    /\ UNCHANGED <<img, config, promise, canvas, log, thrown, dom, settles, call, ret>>

\* A pending createRotatedImageOverlay call resolves with its overlay.
CreateCompletes ==
    /\ \E k \in DOMAIN proc.calls :
         /\ proc.calls[k].pending
         /\ proc' = OverlayCreated(proc, k)
    /\ UNCHANGED <<img, config, promise, canvas, log, thrown, dom, settles, call, ret>>

\* The component is unmounted, once the effects of its last render have
\* run: the second effect's cleanup function runs.
Unmount ==
    /\ proc.phase = "mounted"
    /\ proc.effects = {}
    /\ proc' = [PolygonCleanup(proc) EXCEPT !.phase = "unmounted"]
    /\ UNCHANGED <<img, config, promise, canvas, log, thrown, dom, settles, call, ret>>

PolygonNext ==
    \/ PolygonMount \/ PolygonRerun \/ SetProps
    \/ DragStart \/ DragEnd \/ CreateCompletes \/ Unmount

SpecPolygon == PolygonInit /\ [][PolygonNext]_vars

OverlaysOnMap == {layer \in proc.map : layer.kind = "overlay"}

\* C28 (as claimed): at most one overlay of the component is on the map, and
\* an overlay on the map is the one imageOverlayRef holds.
C28_AtMostOneOverlay ==
    /\ Cardinality(OverlaysOnMap) <= 1
    /\ \A layer \in OverlaysOnMap : proc.imageOverlayRef = layer.id

\* C29 (as claimed): once the component is unmounted and no
\* createRotatedImageOverlay call is pending, none of its layers is on the map.
C29_NothingLeftAfterUnmount ==
    (/\ proc.phase = "unmounted"
     /\ \A k \in DOMAIN proc.calls : ~proc.calls[k].pending) =>
        proc.map = {}

====
